---- MODULE Spec2Model ----
(***************************************************************************)
(* Model of the closed-candle pipeline of mt5-python-bot:                  *)
(*   CandleMonitorService (app/services/candle_monitor.py),                *)
(*   PositionGuardService (app/services/position_guard.py),                *)
(*   the gating part of SignalService / OrderPlannerService /              *)
(*   ExecutionService, and the MT5 gateway they talk to.                   *)
(*                                                                         *)
(* Time is counted in timeframes: the candle with epoch e opens at e and   *)
(* is closed from e + 1 on.  Candle.time_utc is built from the same epoch  *)
(* (mt5_client.py:181), so one axis serves for epochs and for the clock.   *)
(* Candle prices are not represented: whether the 4-bar detector fires on  *)
(* a window is an input of the feeding step.                               *)
(***************************************************************************)
EXTENDS Integers, Sequences, FiniteSets, TLC

\* ------------------------------------------------------------------ bounds
MaxTime == 5
MaxFreeze == 1
MaxTickets == 2
MaxBars == 3
MaxPrice == 5
MaxPeriod == 3
MaxFeed == 202

MaxDay == 13
Sub == 4

\* ------------------------------------------------------- program constants
HYDRATE_MAX_RETRIES == 3
bootstrap_bars == 1
timeframe_sec == 1
warmup_bars == 220
NoEpoch == 0
NoTicket == 0
NoTime == 0
NoFreeze == 0
Window == 4
NoPrice == 0
NoAtr == -1

Epochs == 1..MaxTime

VARIABLES
    now,                  \* wall clock, datetime.now(timezone.utc)
    gwLatest,             \* epoch of the last closed bar the terminal exposes
    positions,            \* open positions of the symbol, in positions_get order
    tickets_issued,       \* tickets handed out by the broker so far
    lastPosClose,         \* instant of the most recent position close
    last_seen_epoch,      \* CandleMonitorService._last_seen_epoch (the cursor)
    candles_4,            \* CandleMonitorService._candles_4
    bootstrap_mode,       \* CandleMonitorService._bootstrap_mode
    warm,                 \* per epoch: times consumed by warmup_with_candles in run()
    sigbuf,               \* SignalService._buffer.candles
    guard,                \* PositionGuardService fields
    pc,                   \* position inside _process_symbol
    loc,                  \* locals of _process_symbol
    fed,                  \* per epoch: times fed to IndicatorsService.on_closed_candle
    firstCursor,          \* first value the cursor ever took
    cyc,                  \* record of the current / last process_once() call
    settings,             \* Settings fields and SymbolMeta read by the guard
    candle_no,            \* epoch of the bar last handed to the guard on its own
    sl_log,               \* what the last guard.on_closed_candle call did
    ex,                   \* one ExecutionService.execute_market call: inputs, result
    rk,                   \* one RiskService.compute_lot call: inputs, result
    pln,                  \* one OrderPlannerService.build_from_last4 call: inputs, result
    ema,                  \* one EmaState and the inputs it was updated with
    ind,                  \* IndicatorsService._state, the last snapshot, the candle feed
    det,                  \* SignalService._buffer and one on_closed call: inputs, result
    clk,                  \* one query of the session clock: local time, window, answers
    sch                   \* SchedulerService.run_forever: position in the loop, clock, targets

vars == <<now, gwLatest, positions, tickets_issued, lastPosClose,
          last_seen_epoch, candles_4, bootstrap_mode, warm, sigbuf,
          guard, pc, loc, fed, firstCursor, cyc,
          settings, candle_no, sl_log, ex, rk, pln, ema, ind, det, clk, sch>>

gwVars == <<now, gwLatest, positions, tickets_issued, lastPosClose>>
\* state of the component-level specifications, untouched by the pipeline
\* state of the specifications of the pure components
fnVars == <<rk, pln, ema, ind, det, clk, sch>>
unitVars == <<settings, candle_no, sl_log, ex, fnVars>>
cfgVars == <<bootstrap_mode, warm, unitVars>>
\* state of the pipeline, untouched by the component-level specifications
pipeVars == <<now, gwLatest, lastPosClose, last_seen_epoch, candles_4,
              bootstrap_mode, warm, sigbuf, pc, loc, fed, firstCursor, cyc>>

\* ---------------------------------------------------------------- helpers
\* deque(maxlen=4).append
Append4(s, x) ==
    IF Len(s) < Window THEN Append(s, x) ELSE Append(Tail(s), x)

\* ascending list of the integers lo..hi
RECURSIVE Asc(_, _)
Asc(lo, hi) == IF lo > hi THEN <<>> ELSE <<lo>> \o Asc(lo + 1, hi)

Max(a, b) == IF a >= b THEN a ELSE b

Abs(x) == IF x < 0 THEN 0 - x ELSE x

Min(a, b) == IF a <= b THEN a ELSE b

\* ---------------------------------------------------------------- gateway
\* MT5Client.get_last_closed_candle: the last closed candle, or None
FetchLatest == {NoEpoch, gwLatest}

\* MT5Client.get_backfill_candles on a fully hydrated terminal: the closed
\* bars with since < epoch <= until, ascending
FullRange(since, until) ==
    IF until <= since THEN <<>>
    ELSE Asc(Max(since + 1, 1), IF until <= gwLatest THEN until ELSE gwLatest)

\* MT5Client.get_backfill_candles: copy_rates_range may hand back only the
\* part of the range the terminal has hydrated so far (a prefix, possibly
\* empty)
get_backfill_candles(since, until) ==
    {SubSeq(FullRange(since, until), 1, n) : n \in 0..Len(FullRange(since, until))}

Tickets(poss) == {poss[i].ticket : i \in 1..Len(poss)}

\* ------------------------------------------------------------------ guard
has_open_position_tracked(g, poss) == g.open_position_ticket # NoTicket

\* PositionGuardService.has_open_position: asks the gateway, not the guard's
\* own tracked ticket
has_open_position(g, poss) == Len(poss) > 0

\* PositionGuardService.is_in_freeze
is_in_freeze(g, t) ==
    IF g.freeze_hours = NoFreeze THEN FALSE
    ELSE IF g.last_closed_at_utc = NoTime THEN FALSE
    ELSE t < g.last_closed_at_utc + g.freeze_hours

on_closed_candle_keeps_armed(g, poss, c) ==
    IF g.open_position_ticket # NoTicket
    THEN IF g.open_position_ticket \notin Tickets(poss)
         THEN [g EXCEPT !.last_closed_at_utc = c + timeframe_sec,
                        !.open_position_ticket = NoTicket]
         ELSE g
    ELSE IF Len(poss) > 0
         THEN [g EXCEPT !.open_position_ticket = poss[1].ticket]
         ELSE g

on_closed_candle_at_open(g, poss, c) ==
    IF g.open_position_ticket # NoTicket
    THEN IF g.open_position_ticket \notin Tickets(poss)
         THEN [g EXCEPT !.last_closed_at_utc = c,
                        !.open_position_ticket = NoTicket,
                        !.be_armed_at_utc = NoTime]
         ELSE g
    ELSE IF Len(poss) > 0
         THEN [g EXCEPT !.open_position_ticket = poss[1].ticket]
         ELSE g

\* PositionGuardService.on_closed_candle (with mark_position_closed), the
\* position lifecycle; the in-trade stop management of a tracked position
\* that is still open is manage_in_trade_sl below
on_closed_candle(g, poss, c) ==
    IF g.open_position_ticket # NoTicket
    THEN IF g.open_position_ticket \notin Tickets(poss)
         THEN [g EXCEPT !.last_closed_at_utc = c + timeframe_sec,
                        !.open_position_ticket = NoTicket,
                        !.be_armed_at_utc = NoTime]
         ELSE g
    ELSE IF Len(poss) > 0
         THEN [g EXCEPT !.open_position_ticket = poss[1].ticket]
         ELSE g

\* ------------------------------------------------------- _process_symbol
Loc0 == [prev_epoch |-> NoEpoch, retry |-> 0, latest |-> NoEpoch,
         batch |-> <<>>, live |-> "no", guard |-> FALSE, after |-> "return"]

\* one send_market_order invocation
NoOrder == [epoch |-> NoEpoch, is_live |-> FALSE, latest |-> NoEpoch, at |-> NoTime,
            npos |-> 0, last_closed_at_utc |-> NoTime, posClose |-> NoTime,
            closedHere |-> FALSE, nfed |-> 0, filled |-> FALSE]

Cyc0 == [ran |-> FALSE, cursor0 |-> NoEpoch, latest0 |-> NoEpoch,
         stale |-> TRUE, full |-> FALSE, exc |-> FALSE, fed |-> <<>>,
         orders |-> 0, signals |-> 0, staleSignal |-> FALSE, fetches |-> 0,
         blocked |-> FALSE, skipOpen |-> FALSE, excBar |-> NoEpoch,
         order |-> NoOrder, prevFailed |-> NoEpoch]

Idle == [pc |-> "idle", loc |-> Loc0]

is_newer_or_same(new_epoch, prev_epoch) == new_epoch >= prev_epoch

\* the hydration test `new_epoch > prev_epoch` (candle_monitor.py:158)
is_newer(new_epoch, prev_epoch) == new_epoch > prev_epoch

is_live_always(mode, c, latest) == TRUE

\* the is_live flag handed to _maybe_emit_signal: False for the bootstrap
\* window, True for the fallback bar, candle.epoch == latest otherwise
is_live(mode, c, latest) ==
    CASE mode = "no" -> FALSE
      [] mode = "yes" -> TRUE
      [] OTHER -> c = latest

guard_before_update(before, after) == before

\* the guard state _maybe_emit_signal consults: guard.on_closed_candle has
\* already run for this candle (candle_monitor.py:202-204)
guard_at_signal(before, after) == after

proceeds_ignoring_liveness(sig, sig_is_live) == sig

\* _maybe_emit_signal: `if not sig or not sig.is_live: return`
proceeds_to_trading(sig, sig_is_live) == sig /\ sig_is_live

\* what follows the `for candle in backfill` loop that has just ended
AfterBatch(l, cur) ==
    CASE l.after = "first_loop_entry" ->
            IF HYDRATE_MAX_RETRIES > 0
            THEN [pc |-> "first_loop", loc |-> [Loc0 EXCEPT !.prev_epoch = cur]]
            ELSE Idle
      [] l.after = "first_loop_check" ->
            IF (cur # NoEpoch /\ l.latest = cur) \/ l.retry + 1 >= HYDRATE_MAX_RETRIES
            THEN Idle
            ELSE [pc |-> "first_loop",
                  loc |-> [Loc0 EXCEPT !.prev_epoch = l.prev_epoch,
                                       !.retry = l.retry + 1]]
      [] OTHER -> Idle

StartBatch(b, l, cur) ==
    IF b = <<>> THEN AfterBatch(l, cur)
    ELSE [pc |-> "feed", loc |-> [l EXCEPT !.batch = b]]

\* the bar whose order submission failed in the call just before this one
PrevFailed ==
    IF cyc.order # NoOrder /\ ~cyc.order.filled THEN cyc.order.epoch
    ELSE NoEpoch

NewCycle(latest) ==
    [Cyc0 EXCEPT !.ran = TRUE, !.cursor0 = last_seen_epoch, !.latest0 = latest,
                 !.stale = (latest <= last_seen_epoch), !.fetches = 1,
                 !.prevFailed = PrevFailed]

downstream == <<candles_4, sigbuf, guard, fed>>

\* the pipeline specification reads none of the guard's settings
NoSettings == [enable_breakeven_sl |-> FALSE, be_trigger_price |-> "close",
               take_profit_mode |-> "fixed", commission_per_lot |-> 0,
               stops_level |-> 0]

\* no execute_market call
NoExec == [done |-> FALSE]

\* nothing done by the guard yet
NoLog == [kind |-> "none", side |-> "BUY", sl |-> NoPrice, current_sl |-> NoPrice,
          close |-> NoPrice, be_price |-> NoPrice, armed |-> NoTime,
          bar |-> NoEpoch, closed |-> FALSE, ticket |-> NoTicket, ok |-> FALSE]

\* no compute_lot call
NoRisk == [done |-> FALSE]

\* no build_from_last4 call
NoPlanning == [done |-> FALSE]

\* ============================================================== indicators
\* Optional[float]: None, or a value.  Indicator values are carried at the
\* resolution of their inputs: a division truncates to it.
Absent == [has |-> FALSE, v |-> 0]

Value(x) == [has |-> TRUE, v |-> x]

RECURSIVE Sum(_)
Sum(s) == IF s = <<>> THEN 0 ELSE s[1] + Sum(Tail(s))

ema_seeds_with_last(close, period, prev_ema, seed_buff) ==
    LET seed == Append(seed_buff, close)
    IN  IF ~prev_ema.has /\ Len(seed) < period THEN [value |-> Absent, seed |-> seed]
        ELSE IF ~prev_ema.has THEN [value |-> Value(close), seed |-> <<>>]
        ELSE [value |-> Value((2 * close + (period - 1) * prev_ema.v) \div (period + 1)),
              seed |-> seed_buff]

\* _ema_seed_or_update -> (ema, seed_buff); a = 2 / (period + 1), so
\* a * close + (1 - a) * prev = (2 * close + (period - 1) * prev) / (period + 1)
ema_seed_or_update(close, period, prev_ema, seed_buff) ==
    LET seed == Append(seed_buff, close)
    IN  IF ~prev_ema.has /\ Len(seed) < period THEN [value |-> Absent, seed |-> seed]
        ELSE IF ~prev_ema.has /\ Len(seed) = period
             THEN [value |-> Value(Sum(seed) \div period), seed |-> <<>>]
        ELSE IF ~prev_ema.has
             THEN [value |-> Value(close), seed |-> seed]
        ELSE [value |-> Value((2 * close + (period - 1) * prev_ema.v) \div (period + 1)),
              seed |-> seed_buff]

\* EmaState.empty(period)
ema_empty(period) == [period |-> period, value |-> Absent, seed |-> <<>>]

\* EmaState.update(close)
ema_update(st, close) ==
    LET out == ema_seed_or_update(close, st.period, st.value, st.seed)
    IN  [period |-> st.period, value |-> out.value, seed |-> out.seed]

\* MacdState.update(close) -> (new_state, macd, signal, histogram)
macd_update(m, close) ==
    LET new_ema12 == ema_update(m.ema12, close)
        new_ema26 == ema_update(m.ema26, close)
        has_macd == new_ema12.value.has /\ new_ema26.value.has
        macd == IF has_macd THEN Value(new_ema12.value.v - new_ema26.value.v) ELSE Absent
        new_signal == IF has_macd THEN ema_update(m.signal9, macd.v) ELSE m.signal9
        histogram == IF has_macd /\ new_signal.value.has
                     THEN Value(macd.v - new_signal.value.v) ELSE Absent
    IN  [state |-> [ema12 |-> new_ema12, ema26 |-> new_ema26, signal9 |-> new_signal],
         macd |-> macd, signal |-> new_signal.value, histogram |-> histogram]

atr_update_restarting(a, high, low, close) ==
    LET seed == Append(a.seed, Max(0, high - low))
    IN  IF a.value.has
        THEN [a EXCEPT !.value = Absent, !.prev_close = Value(close), !.seed = <<>>]
        ELSE IF Len(seed) < a.period
             THEN [a EXCEPT !.prev_close = Value(close), !.seed = seed]
        ELSE [a EXCEPT !.value = Value(Sum(seed) \div a.period),
                       !.prev_close = Value(close), !.seed = <<>>]

\* AtrState.update(high, low, close)
atr_update(a, high, low, close) ==
    LET tr == IF ~a.prev_close.has THEN Max(0, high - low)
              ELSE Max(Max(high - low, Abs(high - a.prev_close.v)),
                       Abs(low - a.prev_close.v))
        seed == Append(a.seed, tr)
    IN  IF ~a.value.has
        THEN IF Len(seed) < a.period
             THEN [a EXCEPT !.prev_close = Value(close), !.seed = seed]
             ELSE [a EXCEPT !.value = Value(Sum(seed) \div a.period),
                            !.prev_close = Value(close), !.seed = <<>>]
        ELSE [a EXCEPT !.value = Value((a.value.v * (a.period - 1) + tr) \div a.period),
                       !.prev_close = Value(close), !.seed = <<>>]

\* IndicatorsService.__init__: _InternalState with EmaState.empty(200),
\* MacdState.empty() and AtrState.empty(14)
indicators_empty ==
    [ema200 |-> ema_empty(200),
     macd |-> [ema12 |-> ema_empty(12), ema26 |-> ema_empty(26), signal9 |-> ema_empty(9)],
     atr14 |-> [period |-> 14, value |-> Absent, prev_close |-> Absent, seed |-> <<>>],
     n_closes |-> 0, last_histogram |-> <<>>]

\* IndicatorsService._consume_candle: the new state and the snapshot
consume_candle(st, candle) ==
    LET n == st.n_closes + 1
        n_ema200 == ema_update(st.ema200, candle.close)
        m == macd_update(st.macd, candle.close)
        n_atr14 == atr_update(st.atr14, candle.high, candle.low, candle.close)
        last_histogram == Append4(st.last_histogram, m.histogram)
    IN  [state |-> [ema200 |-> n_ema200, macd |-> m.state, atr14 |-> n_atr14,
                    n_closes |-> n, last_histogram |-> last_histogram],
         snap |-> [made |-> TRUE,
                   ema200 |-> n_ema200.value, macd |-> m.macd, signal |-> m.signal,
                   histogram |-> m.histogram, atr14 |-> n_atr14.value,
                   bars_until_ready_ema200 |-> Max(0, 200 - n),
                   bars_until_ready_macd_histogram |-> Max(0, 35 - n),
                   bars_until_ready_atr14 |->
                       IF ~n_atr14.value.has
                       THEN Max(0, n_atr14.period - Len(n_atr14.seed)) ELSE 0,
                   last_histogram_values |-> last_histogram]]

\* no snapshot made yet
NoSnapshot ==
    [made |-> FALSE, ema200 |-> Absent, macd |-> Absent, signal |-> Absent,
     histogram |-> Absent, atr14 |-> Absent, bars_until_ready_ema200 |-> 200,
     bars_until_ready_macd_histogram |-> 35, bars_until_ready_atr14 |-> 14,
     last_histogram_values |-> <<>>]

\* a fresh IndicatorsService; the feed is flat at 10 points
NoInd ==
    [state |-> indicators_empty, snap |-> NoSnapshot, live |-> FALSE, left |-> 0,
     feed |-> [swing |-> 0, range |-> 0]]

\* no EmaState under test
NoEma == [inputs |-> <<>>]

\* no SignalService.on_closed call
NoDetection == [done |-> FALSE]

\* run_forever has not been entered
NoSched == [pc |-> "off"]

\* SchedulerService(buffer_seconds=1.0)
buffer_seconds == 1

\* no query of the session clock
NoClock == [done |-> FALSE]

\* session_start_hour and session_end_hour, the defaults of Settings
session_start_hour == 7

session_end_hour == 3

\* the pure components have not been called
FnAtRest ==
    rk = NoRisk /\ pln = NoPlanning /\ ema = NoEma /\ ind = NoInd /\ det = NoDetection /\ clk = NoClock
    /\ sch = NoSched

\* ---------------------------------------------------------------- Init
Init ==
    /\ now = 2
    /\ gwLatest = 1
    /\ \/ positions = <<>> /\ tickets_issued = 0
       \/ positions = <<[ticket |-> 1, bot |-> FALSE]>> /\ tickets_issued = 1
    /\ lastPosClose = NoTime
    /\ last_seen_epoch = NoEpoch
    /\ candles_4 = <<>>
    /\ bootstrap_mode \in BOOLEAN
    \* run(): `if last:` seed the indicators with the bars the terminal
    \* hands back for (last.epoch - 220 bars, last.epoch]
    /\ \E last \in FetchLatest :
          \E recent \in IF last = NoEpoch THEN {<<>>}
                        ELSE get_backfill_candles(last - warmup_bars * timeframe_sec, last) :
             warm = [e \in Epochs |->
                       Cardinality({i \in 1..Len(recent) : recent[i] = e})]
    /\ sigbuf = <<>>
    /\ guard \in {[freeze_hours |-> f, last_closed_at_utc |-> NoTime,
                   open_position_ticket |-> NoTicket,
                   be_armed_at_utc |-> NoTime] : f \in {NoFreeze, MaxFreeze}}
    /\ pc = "idle"
    /\ loc = Loc0
    /\ fed = [e \in Epochs |-> 0]
    /\ firstCursor = NoEpoch
    /\ cyc = Cyc0
    /\ settings = NoSettings
    /\ candle_no = NoEpoch
    /\ sl_log = NoLog
    /\ ex = NoExec
    /\ FnAtRest

\* ------------------------------------------------------- the environment
\* wall-clock time passes
\* the record of a finished process_once() call is dropped as soon as the
\* environment moves
Forget == IF pc = "idle" THEN Cyc0 ELSE cyc

\* the freeze window after a close at instant t is over at instant n
FreezeOver(t, n) ==
    t = NoTime \/ guard.freeze_hours = NoFreeze \/ n >= t + guard.freeze_hours

Tick ==
    /\ pc = "idle"
    /\ now < MaxTime
    /\ now' = now + 1
    /\ lastPosClose' = IF FreezeOver(lastPosClose, now + 1) THEN NoTime ELSE lastPosClose
    /\ cyc' = Forget
    /\ UNCHANGED <<gwLatest, positions, tickets_issued,
                   last_seen_epoch, cfgVars, downstream, pc, loc, firstCursor>>

\* the terminal exposes newer closed bars (one, or several at once)
NewBar ==
    /\ pc # "feed"
    /\ \E e \in (gwLatest + 1)..(now - 1) : gwLatest' = e
    /\ UNCHANGED <<now, positions, tickets_issued, lastPosClose,
                   last_seen_epoch, cfgVars, downstream, pc, loc, firstCursor>>
    /\ cyc' = Forget

\* a position is closed at the broker (stop or target hit, or by hand)
ClosePosition ==
    /\ pc # "feed"
    /\ \E i \in 1..Len(positions) :
          positions' = SubSeq(positions, 1, i - 1) \o SubSeq(positions, i + 1, Len(positions))
    /\ lastPosClose' = IF guard.freeze_hours = NoFreeze THEN NoTime ELSE now
    /\ UNCHANGED <<now, gwLatest, tickets_issued,
                   last_seen_epoch, cfgVars, downstream, pc, loc, firstCursor>>
    /\ cyc' = Forget

\* ------------------------------------------------------------ process_once
\* process_once(): get_last_closed_candle returns None -> warning, return
NoCandle ==
    /\ pc = "idle"
    /\ NoEpoch \in FetchLatest
    /\ cyc' = [Cyc0 EXCEPT !.ran = TRUE, !.cursor0 = last_seen_epoch, !.fetches = 1]
    /\ UNCHANGED <<gwVars, last_seen_epoch, cfgVars, downstream, pc, loc, firstCursor>>

\* first run, bootstrap_mode: fetch the bootstrap window ending at last_closed
FirstRunBootstrap ==
    /\ pc = "idle"
    /\ last_seen_epoch = NoEpoch
    /\ bootstrap_mode
    /\ \E last_closed_epoch \in FetchLatest \ {NoEpoch}, raised \in BOOLEAN :
        LET start_epoch == last_closed_epoch - (bootstrap_bars - 1) * timeframe_sec
        IN  \E backfill \in get_backfill_candles(start_epoch - 1, last_closed_epoch) :
              LET l == [Loc0 EXCEPT !.latest = last_closed_epoch, !.live = "no",
                                    !.guard = FALSE, !.after = "first_loop_entry"]
                  nxt == IF raised THEN Idle ELSE StartBatch(backfill, l, last_seen_epoch)
              IN  /\ raised => backfill = <<>>
                  /\ pc' = nxt.pc
                  /\ loc' = nxt.loc
                  /\ cyc' = [NewCycle(last_closed_epoch) EXCEPT !.exc = raised]
    /\ UNCHANGED <<gwVars, last_seen_epoch, cfgVars, downstream, firstCursor>>

\* first run, no bootstrap: only set the pointer
FirstRunSetPointer ==
    /\ pc = "idle"
    /\ last_seen_epoch = NoEpoch
    /\ ~bootstrap_mode
    /\ \E last_closed_epoch \in FetchLatest \ {NoEpoch} :
        LET nxt == AfterBatch([Loc0 EXCEPT !.after = "first_loop_entry"], last_closed_epoch)
        IN  /\ last_seen_epoch' = last_closed_epoch
            /\ firstCursor' = last_closed_epoch
            /\ pc' = nxt.pc
            /\ loc' = nxt.loc
            /\ cyc' = NewCycle(last_closed_epoch)
    /\ UNCHANGED <<gwVars, cfgVars, downstream>>

\* one iteration of the first-run hydration loop
FirstRunHydrate ==
    /\ pc = "first_loop"
    /\ \E new_epoch \in FetchLatest, raised \in BOOLEAN :
        LET c1 == [cyc EXCEPT !.fetches = @ + 1,
                              !.stale = @ /\ new_epoch <= cyc.cursor0]
            l  == [loc EXCEPT !.latest = new_epoch, !.live = "eq", !.guard = FALSE,
                              !.after = "first_loop_check"]
            since == IF loc.prev_epoch = NoEpoch THEN new_epoch - timeframe_sec
                     ELSE loc.prev_epoch
        IN  IF new_epoch = NoEpoch
            THEN /\ ~raised
                 /\ pc' = "idle" /\ loc' = Loc0 /\ cyc' = c1
            ELSE IF loc.prev_epoch = NoEpoch \/ is_newer(new_epoch, loc.prev_epoch)
            THEN \E backfill \in get_backfill_candles(since, new_epoch) :
                   LET nxt == IF raised THEN Idle ELSE StartBatch(backfill, l, last_seen_epoch)
                   IN  /\ raised => backfill = <<>>
                       /\ pc' = nxt.pc /\ loc' = nxt.loc
                       /\ cyc' = [c1 EXCEPT !.exc = raised]
            ELSE LET nxt == AfterBatch(l, last_seen_epoch)
                 IN  /\ ~raised
                     /\ pc' = nxt.pc /\ loc' = nxt.loc /\ cyc' = c1
    /\ UNCHANGED <<gwVars, last_seen_epoch, cfgVars, downstream, firstCursor>>

\* last_closed_epoch <= seen: enter the hydration wait
UpToDate ==
    /\ pc = "idle"
    /\ last_seen_epoch # NoEpoch
    /\ \E last_closed_epoch \in FetchLatest \ {NoEpoch} :
        /\ last_closed_epoch <= last_seen_epoch
        /\ IF HYDRATE_MAX_RETRIES > 0
           THEN /\ pc' = "hydrate"
                /\ loc' = [Loc0 EXCEPT !.prev_epoch = last_seen_epoch]
           ELSE /\ pc' = "idle" /\ loc' = Loc0
        /\ cyc' = NewCycle(last_closed_epoch)
    /\ UNCHANGED <<gwVars, last_seen_epoch, cfgVars, downstream, firstCursor>>

\* one iteration of the hydration wait
HydrateRetry ==
    /\ pc = "hydrate"
    /\ \E new_epoch \in FetchLatest, raised \in BOOLEAN :
        LET c1 == [cyc EXCEPT !.fetches = @ + 1,
                              !.stale = @ /\ new_epoch <= cyc.cursor0]
            l  == [loc EXCEPT !.latest = new_epoch, !.guard = TRUE, !.after = "return"]
        IN  IF new_epoch = NoEpoch
            THEN /\ ~raised
                 /\ pc' = "idle" /\ loc' = Loc0 /\ cyc' = c1
            ELSE IF is_newer(new_epoch, loc.prev_epoch)
            THEN \E backfill \in get_backfill_candles(loc.prev_epoch, new_epoch) :
                   LET nxt == IF raised THEN Idle
                              ELSE IF backfill # <<>>
                              THEN StartBatch(backfill, [l EXCEPT !.live = "eq"], last_seen_epoch)
                              ELSE StartBatch(<<new_epoch>>, [l EXCEPT !.live = "yes"], last_seen_epoch)
                   IN  /\ raised => backfill = <<>>
                       /\ pc' = nxt.pc /\ loc' = nxt.loc
                       /\ cyc' = [c1 EXCEPT !.exc = raised]
            ELSE /\ ~raised
                 /\ IF loc.retry + 1 >= HYDRATE_MAX_RETRIES
                    THEN pc' = "idle" /\ loc' = Loc0
                    ELSE pc' = "hydrate" /\ loc' = [loc EXCEPT !.retry = @ + 1]
                 /\ cyc' = c1
    /\ UNCHANGED <<gwVars, last_seen_epoch, cfgVars, downstream, firstCursor>>

\* last_closed_epoch > seen: backfill (seen, last_closed_epoch], or fall back
\* to last_closed alone when the backfill comes back empty
BackfillGap ==
    /\ pc = "idle"
    /\ last_seen_epoch # NoEpoch
    /\ \E last_closed_epoch \in FetchLatest \ {NoEpoch}, raised \in BOOLEAN :
        /\ last_closed_epoch > last_seen_epoch
        /\ \E backfill \in get_backfill_candles(last_seen_epoch, last_closed_epoch) :
            LET l == [Loc0 EXCEPT !.latest = last_closed_epoch, !.guard = TRUE,
                                  !.after = "return"]
                nxt == IF raised THEN Idle
                       ELSE IF backfill # <<>>
                       THEN StartBatch(backfill, [l EXCEPT !.live = "eq"], last_seen_epoch)
                       ELSE StartBatch(<<last_closed_epoch>>, [l EXCEPT !.live = "yes"], last_seen_epoch)
            IN  /\ raised => backfill = <<>>
                /\ pc' = nxt.pc /\ loc' = nxt.loc
                /\ cyc' = [NewCycle(last_closed_epoch) EXCEPT
                             !.exc = raised,
                             !.full = (~raised /\ backfill = FullRange(last_seen_epoch, last_closed_epoch))]
    /\ UNCHANGED <<gwVars, last_seen_epoch, cfgVars, downstream, firstCursor>>

ExecOutcomes == {"preflight", "raise", "rejected", "filled"}

\* the body of `for candle in backfill`: log, buffer, advance the cursor,
\* indicators, guard (steady-state paths only), _maybe_emit_signal
FeedCandle ==
    /\ pc = "feed"
    /\ \E gexc \in BOOLEAN, pattern \in BOOLEAN, outcome \in ExecOutcomes :
        LET c     == Head(loc.batch)
            rest  == Tail(loc.batch)
            c4    == Append4(candles_4, c)
            live  == is_live(loc.live, c, loc.latest)
            g1    == IF loc.guard THEN on_closed_candle(guard, positions, c) ELSE guard
            sb    == Append4(sigbuf, c)
            \* SignalService.on_closed: nothing below 4 buffered candles
            sig   == Len(sb) >= Window /\ pattern
            \* _maybe_emit_signal gates, in order
            wanted == proceeds_to_trading(sig, live)
            open   == has_open_position(g1, positions)
            frozen == is_in_freeze(guard_at_signal(guard, g1), now)
            gate  == /\ wanted
                     /\ ~open
                     /\ ~frozen
                     /\ Len(c4) >= Window
            sent  == gate /\ outcome # "preflight"
            fill  == gate /\ outcome = "filled"
            ord   == [epoch |-> c, is_live |-> live, latest |-> loc.latest,
                      at |-> now, npos |-> Len(positions),
                      last_closed_at_utc |-> g1.last_closed_at_utc,
                      posClose |-> lastPosClose,
                      closedHere |-> (g1.last_closed_at_utc # guard.last_closed_at_utc),
                      nfed |-> fed[c], filled |-> fill]
            nxt   == IF rest = <<>> THEN AfterBatch(loc, c)
                     ELSE [pc |-> "feed", loc |-> [loc EXCEPT !.batch = rest]]
        IN  /\ gexc => loc.guard
            /\ (~gexc /\ ~(Len(sb) >= Window)) => ~pattern
            /\ (gexc \/ ~gate) => outcome = "preflight"
            /\ fill => tickets_issued < MaxTickets
            /\ candles_4' = c4
            /\ last_seen_epoch' = c
            /\ firstCursor' = IF firstCursor = NoEpoch THEN c ELSE firstCursor
            /\ fed' = [fed EXCEPT ![c] = @ + 1]
            /\ IF gexc
               THEN \* get_positions raised inside guard.on_closed_candle:
                    \* the outer except ends the cycle
                    /\ pattern = FALSE
                    /\ UNCHANGED <<guard, sigbuf, positions, tickets_issued>>
                    /\ pc' = "idle" /\ loc' = Loc0
                    /\ cyc' = [cyc EXCEPT !.exc = TRUE, !.excBar = c,
                                          !.fed = Append(@, <<c, live, loc.guard>>)]
               ELSE /\ guard' = g1
                    /\ sigbuf' = sb
                    /\ positions' =
                         IF fill
                         THEN Append(positions, [ticket |-> tickets_issued + 1, bot |-> TRUE])
                         ELSE positions
                    /\ tickets_issued' = IF fill THEN tickets_issued + 1 ELSE tickets_issued
                    /\ pc' = nxt.pc /\ loc' = nxt.loc
                    /\ cyc' = [cyc EXCEPT
                                 !.fed = Append(@, <<c, live, loc.guard>>),
                                 !.staleSignal = @ \/ (sig /\ ~live),
                                 !.signals = IF sig THEN @ + 1 ELSE @,
                                 !.orders = IF sent THEN @ + 1 ELSE @,
                                 !.order = IF sent THEN ord ELSE @,
                                 !.skipOpen = @ \/ (wanted /\ open),
                                 !.blocked = @ \/ (wanted /\ ~open /\ frozen
                                                   /\ g1.last_closed_at_utc # guard.last_closed_at_utc)]
    /\ UNCHANGED <<now, gwLatest, lastPosClose, cfgVars>>

Next ==
    \/ Tick
    \/ NewBar
    \/ ClosePosition
    \/ NoCandle
    \/ FirstRunBootstrap
    \/ FirstRunSetPointer
    \/ FirstRunHydrate
    \/ UpToDate
    \/ HydrateRetry
    \/ BackfillGap
    \/ FeedCandle

Spec == Init /\ [][Next]_vars

\* process_once() runs on the scheduler's thread and blocks on nothing but
\* the bounded hydrate_retry_sec sleep: a call that has begun keeps stepping
ProcessSpec == Spec /\ WF_vars(FirstRunHydrate \/ HydrateRetry \/ FeedCandle)

TypeOK ==
    /\ now \in 2..MaxTime
    /\ gwLatest \in 1..(now - 1)
    /\ last_seen_epoch \in {NoEpoch} \cup Epochs
    /\ pc \in {"idle", "first_loop", "hydrate", "feed"}
    /\ Len(candles_4) <= Window
    /\ Len(sigbuf) <= Window

\* =================================================== in-trade stop management
\* Prices are integers counted in 1/Sub of a point (a point is one unit of the
\* instrument's last digit); broker prices, candle prices and tick_size lie on
\* whole points, computed prices (break-even, trailing) need not.
tick_size == Sub
tick_value == 2 * Sub
Point(p) == p * Sub
GridPrices == {Point(p) : p \in 1..MaxPrice}
MidPrice == Point((MaxPrice + 1) \div 2)


\* round(price, meta.digits): to the nearest whole point, a tie to the even one
round_to_digits(x) ==
    LET q == x \div Sub
        r == x % Sub
    IN  IF 2 * r < Sub THEN q * Sub
        ELSE IF 2 * r > Sub THEN (q + 1) * Sub
        ELSE IF q % 2 = 0 THEN q * Sub ELSE (q + 1) * Sub

\* RiskService.compute_be_covering_commission
compute_be_covering_commission(side, entry, lt, tv, ts, commission_per_lot, is_round_trip) ==
    LET per_side == commission_per_lot
        total_commission == IF is_round_trip THEN 2 * per_side * lt ELSE per_side * lt
        \* pnl_per_unit = lot * (tick_value / tick_size), kept as a fraction
        pnl_num == lt * tv
        offset == (total_commission * ts) \div pnl_num
    IN  IF pnl_num <= 0 THEN entry
        ELSE IF side = "BUY" THEN entry + offset ELSE entry - offset

be_price_of(pos, s) ==
    compute_be_covering_commission(pos.side, pos.price_open, pos.lot, tick_value,
                                   tick_size, s.commission_per_lot, TRUE)

min_distance(s) == s.stops_level * tick_size

\* the outcome of one stop-management call: nothing sent, or one
\* modify_position_sl_tp(sl, tp) request
NoSend == [send |-> FALSE, sl |-> NoPrice, tp |-> NoPrice]
Send(sl, tp) == [send |-> TRUE, sl |-> sl, tp |-> tp]

\* `new_tp = None if settings.take_profit_mode == "trail" else current_tp`
new_tp(pos, s) == IF s.take_profit_mode = "trail" THEN NoPrice ELSE pos.tp

\* the +1R trigger of _manage_breakeven
be_triggered(pos, candle, s) ==
    LET risk_distance == Abs(pos.price_open - pos.sl)
    IN  IF s.be_trigger_price = "close"
        THEN LET move == IF pos.side = "BUY" THEN candle.close - pos.price_open
                         ELSE pos.price_open - candle.close
             IN  ~(move < risk_distance)
        ELSE /\ ~(pos.side = "BUY" /\ candle.high < pos.price_open + risk_distance)
             /\ ~(pos.side = "SELL" /\ candle.low > pos.price_open - risk_distance)

be_improves_or_keeps(side, candidate_sl, current_sl) ==
    IF side = "BUY" THEN ~(candidate_sl < current_sl) ELSE ~(candidate_sl > current_sl)

\* _manage_breakeven: `if candidate_sl <= current_sl: return` (BUY),
\* `if candidate_sl >= current_sl: return` (SELL)
be_improves(side, candidate_sl, current_sl) ==
    IF side = "BUY" THEN ~(candidate_sl <= current_sl) ELSE ~(candidate_sl >= current_sl)

\* PositionGuardService._manage_breakeven
manage_breakeven(pos, candle, s) ==
    LET current_sl == pos.sl
        risk_distance == Abs(pos.price_open - current_sl)
        be_price == be_price_of(pos, s)
        md == min_distance(s)
        buy0 == Max(current_sl, be_price)
        buy1 == IF candle.close - buy0 < md THEN candle.close - md ELSE buy0
        sell0 == Min(current_sl, be_price)
        sell1 == IF sell0 - candle.close < md THEN candle.close + md ELSE sell0
        candidate_sl == round_to_digits(IF pos.side = "BUY" THEN buy1 ELSE sell1)
    IN  IF current_sl = NoPrice THEN NoSend
        ELSE IF risk_distance <= 0 THEN NoSend
        ELSE IF ~be_triggered(pos, candle, s) THEN NoSend
        ELSE IF ~be_improves(pos.side, candidate_sl, current_sl) THEN NoSend
        ELSE Send(candidate_sl, new_tp(pos, s))

trailing_always(mode) == TRUE

\* _manage_trailing_sl: `if settings.take_profit_mode not in ("trail", "hybrid"): return`
trailing_allowed(mode) == mode \in {"trail", "hybrid"}

\* trail_distance = snapshot.atr14 * settings.atr_trail_multiplier (0.8)
trail_distance(atr14) == (atr14 * 4) \div 5

\* _manage_trailing_sl: strictly better, and by at least one tick
trail_improves(side, candidate_sl, current_sl) ==
    IF side = "BUY"
    THEN ~(candidate_sl <= current_sl \/ candidate_sl - current_sl < tick_size)
    ELSE ~(candidate_sl >= current_sl \/ current_sl - candidate_sl < tick_size)

\* PositionGuardService._manage_trailing_sl
manage_trailing_sl(g, pos, candle, s) ==
    LET current_sl == pos.sl
        be_price == be_price_of(pos, s)
        md == min_distance(s)
        td == trail_distance(candle.atr14)
        buy0 == Max(be_price, candle.close - td)
        buy1 == IF candle.close - buy0 < md THEN Max(be_price, candle.close - md) ELSE buy0
        sell0 == Min(be_price, candle.close + td)
        sell1 == IF sell0 - candle.close < md THEN Min(be_price, candle.close + md) ELSE sell0
        candidate_sl == round_to_digits(IF pos.side = "BUY" THEN buy1 ELSE sell1)
    IN  IF ~trailing_allowed(s.take_profit_mode) THEN NoSend
        ELSE IF g.be_armed_at_utc = NoTime \/ candle.time_utc <= g.be_armed_at_utc THEN NoSend
        ELSE IF candle.atr14 = NoAtr THEN NoSend
        ELSE IF current_sl = NoPrice THEN NoSend
        ELSE IF ~trail_improves(pos.side, candidate_sl, current_sl) THEN NoSend
        ELSE Send(candidate_sl, new_tp(pos, s))

\* PositionGuardService._manage_in_trade_sl: which handler runs, and its request
manage_in_trade_sl(g, pos, candle, s) ==
    IF ~s.enable_breakeven_sl THEN [kind |-> "none", req |-> NoSend]
    ELSE IF g.be_armed_at_utc = NoTime
         THEN [kind |-> "be", req |-> manage_breakeven(pos, candle, s)]
         ELSE [kind |-> "trail", req |-> manage_trailing_sl(g, pos, candle, s)]

\* ------------------------------------------------ the guard, bar after bar
\* GuardSpec drives PositionGuardService alone: closed bars arrive in
\* ascending order, positions open and close at the broker in between, and
\* modify_position_sl_tp succeeds or fails.
\* commission per lot and side: none, a quarter-point-sized one, half a point
Commissions == {0, 1, Sub \div 2}

\* with break-even disabled the guard reads no other setting
GuardSettings ==
    {NoSettings} \cup
    [enable_breakeven_sl : {TRUE}, be_trigger_price : {"close", "hl"},
     take_profit_mode : {"fixed", "trail", "hybrid"},
     commission_per_lot : Commissions, stops_level : 0..2]

PipelineAtRest ==
    /\ now = 2 /\ gwLatest = 1 /\ lastPosClose = NoTime
    /\ last_seen_epoch = NoEpoch /\ candles_4 = <<>> /\ bootstrap_mode = FALSE
    /\ warm = [e \in Epochs |-> 0]
    /\ sigbuf = <<>> /\ pc = "idle" /\ loc = Loc0
    /\ fed = [e \in Epochs |-> 0] /\ firstCursor = NoEpoch /\ cyc = Cyc0

GuardInit ==
    /\ PipelineAtRest
    /\ positions = <<>> /\ tickets_issued = 0
    /\ guard = [freeze_hours |-> MaxFreeze, last_closed_at_utc |-> NoTime,
                open_position_ticket |-> NoTicket, be_armed_at_utc |-> NoTime]
    /\ settings \in GuardSettings
    /\ candle_no = NoEpoch
    /\ sl_log = NoLog
    /\ ex = NoExec
    /\ FnAtRest

\* the candles that can close while the positions `poss` stay open: none of
\* their stops was touched
\* the bars with open time t; the inputs the guard will not read (the
\* extremes under the "close" trigger, ATR before break-even is armed) are
\* not enumerated
BarsAt(t) ==
    {[close |-> cl, high |-> cl + up * tick_size, low |-> cl - dn * tick_size,
      atr14 |-> a, time_utc |-> t] :
        cl \in GridPrices,
        up \in IF settings.be_trigger_price = "hl" THEN 0..1 ELSE {0},
        dn \in IF settings.be_trigger_price = "hl" THEN 0..1 ELSE {0},
        a \in IF guard.be_armed_at_utc # NoTime THEN {NoAtr, 0, 5} ELSE {NoAtr}}

Candles(poss) ==
    {c \in BarsAt(candle_no + 1) :
        /\ \A i \in 1..Len(poss) :
              poss[i].sl # NoPrice =>
                 IF poss[i].side = "BUY" THEN c.low > poss[i].sl
                 ELSE c.high < poss[i].sl}

\* a position of the instrument is opened at the broker, with or without a stop
OpenPosition ==
    /\ positions = <<>>
    /\ tickets_issued < MaxTickets
    /\ \E side \in {"BUY", "SELL"}, entry \in {MidPrice}, risk \in 0..2 :
        LET stop == IF risk = 0 THEN NoPrice
                    ELSE IF side = "BUY" THEN entry - risk * tick_size
                    ELSE entry + risk * tick_size
        IN  /\ risk # 0 => stop \in GridPrices
            /\ positions' = <<[ticket |-> tickets_issued + 1, bot |-> TRUE, side |-> side,
                               lot |-> 1, price_open |-> entry, sl |-> stop,
                               tp |-> NoPrice]>>
    /\ tickets_issued' = tickets_issued + 1
    /\ UNCHANGED <<guard, unitVars, pipeVars>>

\* the open position is closed at the broker
PositionClosed ==
    /\ positions # <<>>
    /\ positions' = <<>>
    /\ UNCHANGED <<tickets_issued, guard, unitVars, pipeVars>>

\* MT5Client.modify_position_sl_tp on the position list: on success the
\* position carries the requested stop and take-profit
modify_position_sl_tp(poss, ticket, req, ok) ==
    [i \in 1..Len(poss) |->
        IF ok /\ poss[i].ticket = ticket
        THEN [poss[i] EXCEPT !.sl = req.sl, !.tp = req.tp]
        ELSE poss[i]]

arm_breakeven_when_sent(g, act, ok, time_utc) ==
    IF act.kind = "be" /\ act.req.send THEN [g EXCEPT !.be_armed_at_utc = time_utc] ELSE g

\* _manage_breakeven: `if ok: ... self._be_armed_at_utc = candle.time_utc`
arm_breakeven(g, act, ok, time_utc) ==
    IF act.kind = "be" /\ act.req.send /\ ok
    THEN [g EXCEPT !.be_armed_at_utc = time_utc]
    ELSE g

\* guard.on_closed_candle(candle, snapshot) for the next closed bar
GuardOnClosedCandle ==
    /\ candle_no < MaxBars
    /\ \E candle \in Candles(positions), ok \in BOOLEAN :
        LET tracked == guard.open_position_ticket
            still   == tracked # NoTicket /\ tracked \in Tickets(positions)
            pos     == positions[CHOOSE i \in 1..Len(positions) : positions[i].ticket = tracked]
            act     == IF still THEN manage_in_trade_sl(guard, pos, candle, settings)
                       ELSE [kind |-> "none", req |-> NoSend]
            g1      == on_closed_candle(guard, positions, candle.time_utc)
        IN  /\ (~act.req.send) => ~ok
            /\ guard' = arm_breakeven(g1, act, ok, candle.time_utc)
            /\ positions' = IF act.req.send
                            THEN modify_position_sl_tp(positions, tracked, act.req, ok)
                            ELSE positions
            /\ candle_no' = candle.time_utc
            /\ sl_log' = [kind |-> IF act.req.send THEN act.kind ELSE "none",
                          side |-> IF still THEN pos.side ELSE "BUY",
                          sl |-> act.req.sl,
                          current_sl |-> IF act.req.send THEN pos.sl ELSE NoPrice,
                          close |-> IF act.req.send THEN candle.close ELSE NoPrice,
                          be_price |-> IF act.req.send THEN be_price_of(pos, settings) ELSE NoPrice,
                          armed |-> guard.be_armed_at_utc,
                          bar |-> candle.time_utc,
                          closed |-> (tracked # NoTicket /\ ~still),
                          ticket |-> tracked,
                          ok |-> ok]
    /\ UNCHANGED <<tickets_issued, settings, ex, fnVars, pipeVars>>

GuardNext ==
    \/ OpenPosition
    \/ PositionClosed
    \/ GuardOnClosedCandle

GuardSpec == GuardInit /\ [][GuardNext]_vars

\* ============================================================== execution
\* round(price, digits) of a price counted in 1/unit of a point
round_to_digits_of(x, unit) ==
    LET q == x \div unit
        r == x % unit
    IN  IF 2 * r < unit THEN q * Sub
        ELSE IF 2 * r > unit THEN (q + 1) * Sub
        ELSE IF q % 2 = 0 THEN q * Sub ELSE (q + 1) * Sub

\* the widening factor min_price_dist / max(dist, 1e-12) exceeds
\* max(1.0, factor); factor is counted in tenths
factor_exceeded(min_price_dist, dist, factor10) ==
    IF dist = 0 THEN min_price_dist > 0
    ELSE 10 * min_price_dist > Max(10, factor10) * dist

nudge_always_widens(policy, factor10, planned_sl, entry, side, meta) ==
    LET min_price_dist == Max(0, meta.stops_level) * meta.tick_size
    IN  IF Abs(entry - planned_sl) >= min_price_dist THEN planned_sl
        ELSE IF side = "BUY" THEN entry - min_price_dist ELSE entry + min_price_dist

\* ExecutionService._apply_sl_nudge: the stop to use, or NoPrice (None)
apply_sl_nudge(policy, factor10, planned_sl, entry, side, meta) ==
    LET min_points == Max(0, meta.stops_level)
        min_price_dist == min_points * meta.tick_size
        dist == Abs(entry - planned_sl)
    IN  IF dist >= min_price_dist THEN planned_sl
        ELSE IF policy = "off" THEN NoPrice
        ELSE IF policy = "conservative" /\ factor_exceeded(min_price_dist, dist, factor10)
             THEN NoPrice
        ELSE IF side = "BUY" THEN entry - min_price_dist
        ELSE entry + min_price_dist

\* ExecutionService._compute_tp, in halves of the price unit (rr is counted
\* in halves: rr2 = 2 * rr)
compute_tp(entry, sl, rr2, side) ==
    LET risk == Abs(entry - sl)
    IN  IF side = "BUY" THEN 2 * entry + rr2 * risk ELSE 2 * entry - rr2 * risk

\* the digits round(lot, digits) keeps, as a lot quantum: lots are counted in
\* hundredths (RiskService._decimals_from_step)
decimals_from_step(step) ==
    IF step % 100 = 0 THEN 100 ELSE IF step % 10 = 0 THEN 10 ELSE 1

round_lot(l, unit) ==
    LET q == l \div unit
        r == l % unit
    IN  IF 2 * r < unit THEN q * unit
        ELSE IF 2 * r > unit THEN (q + 1) * unit
        ELSE IF q % 2 = 0 THEN q * unit ELSE (q + 1) * unit

floor_ignoring_step(num, den, step) == num \div den

\* RiskService._floor_to_step(lot, step) of the lot num / den for a positive
\* step: math.floor(lot / step) * step.  Lots are counted in hundredths.
floor_to_step(num, den, step) == (num \div (den * step)) * step

\* risk_used > risk_target + 1e-9.  Money is counted in hundredths;
\* risk_used = lot * ticks * tick_value is carried as lot * price_diff *
\* tick_value, i.e. multiplied by tick_size, and so is the target here.
risk_exceeds(used, meta, target100) == used > target100 * meta.tick_size

\* the `while lot > meta.min_lot and risk_used > risk_target` loop: the lot
\* and the risk_used it leaves (the clamp to min_lot breaks out before
\* risk_used is recomputed)
RECURSIVE decrement_lot(_, _, _, _, _)
decrement_lot(l, used, price_diff, meta, target100) ==
    IF l > meta.min_lot /\ risk_exceeds(used, meta, target100)
    THEN IF l - meta.lot_step < meta.min_lot
         THEN [lot |-> meta.min_lot, risk_used |-> used]
         ELSE decrement_lot(l - meta.lot_step,
                            (l - meta.lot_step) * price_diff * meta.tick_value,
                            price_diff, meta, target100)
    ELSE [lot |-> l, risk_used |-> used]

\* RiskService.compute_lot -> (lot, risk_used): balance in currency units,
\* risk_pct in percent, the lot in hundredths (0 = do not trade), risk_used
\* in hundredths of a currency unit times tick_size
compute_lot_result(balance, risk_pct, entry_price, stop_loss, meta) ==
    LET target100 == Max(0, balance * risk_pct)
        price_diff == Abs(entry_price - stop_loss)
        \* risk_per_lot = ticks * tick_value, ticks = price_diff / tick_size
        per_lot_num == IF meta.tick_size > 0 THEN price_diff * meta.tick_value ELSE 0
        \* raw_lot = risk_target / risk_per_lot
        floored == floor_to_step(target100 * meta.tick_size, per_lot_num, meta.lot_step)
        l0 == Max(floored, meta.min_lot)
        out == decrement_lot(l0, l0 * per_lot_num, price_diff, meta, target100)
    IN  IF target100 <= 0 THEN [lot |-> 0, risk_used |-> 0]
        ELSE IF per_lot_num <= 0 THEN [lot |-> 0, risk_used |-> 0]
        ELSE [lot |-> round_lot(out.lot, decimals_from_step(meta.lot_step)),
              risk_used |-> out.risk_used]

compute_lot_min_clamped(balance, risk_pct, entry_price, stop_loss, meta) == meta.min_lot

\* the lot compute_lot returns
compute_lot(balance, risk_pct, entry_price, stop_loss, meta) ==
    compute_lot_result(balance, risk_pct, entry_price, stop_loss, meta).lot

tp_from_planned_stop(plan, entry, sl) == compute_tp(entry, plan.planned_sl, plan.rr2, plan.side)

\* execute_market line 70: take-profit from the live entry and the stop that
\* came out of the nudge
tp_from_final_stop(plan, entry, sl) == compute_tp(entry, sl, plan.rr2, plan.side)

NoResult(why, sent) ==
    [result |-> "none", why |-> why, sent |-> sent, entry |-> NoPrice,
     nudged |-> NoPrice, sl |-> NoPrice, tp |-> NoPrice, lot |-> 0]

\* ExecutionService.execute_market(plan) against one set of gateway answers
execute_market(plan, cfg, gw) ==
    LET entry == IF plan.side = "BUY" THEN gw.ask ELSE gw.bid
        nudged == apply_sl_nudge(cfg.nudge_mode, cfg.nudge_factor10, plan.planned_sl,
                                 entry, plan.side, gw.meta)
        tp == round_to_digits_of(tp_from_final_stop(plan, entry, nudged), 2 * Sub)
        sl == round_to_digits(nudged)
        l  == compute_lot(gw.balance, cfg.risk_pct, entry, sl, gw.meta)
        order == [result |-> "none", why |-> gw.send, sent |-> TRUE, entry |-> entry,
                  nudged |-> nudged, sl |-> sl, tp |-> tp, lot |-> l]
    IN  IF ~gw.has_quote THEN NoResult("no_quote", FALSE)
        ELSE IF nudged = NoPrice THEN NoResult("nudge", FALSE)
        ELSE IF l <= 0
             THEN [NoResult("lot", FALSE) EXCEPT !.entry = entry, !.nudged = nudged,
                                                 !.sl = sl, !.tp = tp]
        ELSE IF gw.send = "filled" THEN [order EXCEPT !.result = "filled"]
        ELSE order

\* ------------------------------------------- execute_market, call by call
\* ExecSpec applies execute_market to one plan under one configuration and
\* one set of gateway answers.
SubPrices == Point(1)..Point(MaxPrice)

Plans == [side : {"BUY", "SELL"}, planned_sl : SubPrices, rr2 : {2, 3}]

ExecConfigs ==
    [nudge_mode : {"off", "conservative", "flexible"}, nudge_factor10 : {5, 15},
     risk_pct : {1}]

Metas ==
    [stops_level : -1..2, tick_size : {0, tick_size}, tick_value : {tick_value},
     lot_step : {1}, min_lot : {1}]

SendResults == {"raise", "none", "rejected", "filled"}

\* get_quote returned None: nothing else is asked of the gateway
NoQuote ==
    [has_quote |-> FALSE, bid |-> NoPrice, ask |-> NoPrice, balance |-> 0,
     meta |-> [stops_level |-> 0, tick_size |-> tick_size, tick_value |-> tick_value,
               lot_step |-> 1, min_lot |-> 1],
     send |-> "none"]

GatewayAnswers ==
    {NoQuote} \cup
    [has_quote : {TRUE}, bid : {MidPrice}, ask : {MidPrice + tick_size},
     balance : {0, 10}, meta : Metas, send : SendResults]

ExecInit ==
    /\ PipelineAtRest
    /\ positions = <<>> /\ tickets_issued = 0
    /\ guard = [freeze_hours |-> MaxFreeze, last_closed_at_utc |-> NoTime,
                open_position_ticket |-> NoTicket, be_armed_at_utc |-> NoTime]
    /\ settings = NoSettings
    /\ candle_no = NoEpoch
    /\ sl_log = NoLog
    /\ ex \in [done : {FALSE}, plan : Plans, cfg : ExecConfigs, gw : GatewayAnswers,
               res : {NoResult("", FALSE)}]
    /\ FnAtRest

\* one execute_market(plan) call; a fill opens the position at the broker
ExecuteMarket ==
    /\ ~ex.done
    /\ LET res == execute_market(ex.plan, ex.cfg, ex.gw)
       IN  /\ ex' = [ex EXCEPT !.done = TRUE, !.res = res]
           /\ positions' =
                IF res.result = "filled"
                THEN <<[ticket |-> tickets_issued + 1, bot |-> TRUE, side |-> ex.plan.side,
                        lot |-> res.lot, price_open |-> res.entry, sl |-> res.sl,
                        tp |-> res.tp]>>
                ELSE positions
           /\ tickets_issued' = IF res.result = "filled" THEN tickets_issued + 1
                                ELSE tickets_issued
    /\ UNCHANGED <<guard, settings, candle_no, sl_log, fnVars, pipeVars>>

ExecNext == ExecuteMarket

ExecSpec == ExecInit /\ [][ExecNext]_vars

\* ----------------------------------------------- compute_lot, call by call
\* RiskSpec applies compute_lot to one set of inputs.  The scenario of the
\* risk engine (balance 10000, 1 %, 500 ticks, tick_value 1, lot_step =
\* min_lot = 0.01) is among them; broker volume steps are positive.
\* stop distances: none, half a tick, one tick, three ticks, 500 ticks
RiskDistances == {0, tick_size \div 2, tick_size, 3 * tick_size, 500 * tick_size}

\* the pipeline, the guard and the execution service are not running
ServicesAtRest ==
    /\ PipelineAtRest
    /\ positions = <<>> /\ tickets_issued = 0
    /\ guard = [freeze_hours |-> MaxFreeze, last_closed_at_utc |-> NoTime,
                open_position_ticket |-> NoTicket, be_armed_at_utc |-> NoTime]
    /\ settings = NoSettings
    /\ candle_no = NoEpoch
    /\ sl_log = NoLog
    /\ ex = NoExec

svcVars == <<positions, tickets_issued, guard, settings, candle_no, sl_log, ex, pipeVars>>

RiskInit ==
    /\ ServicesAtRest
    /\ pln = NoPlanning /\ ema = NoEma /\ ind = NoInd /\ det = NoDetection /\ clk = NoClock
    /\ sch = NoSched
    /\ rk \in [done : {FALSE}, balance : {0, 100, 10000}, risk_pct : {1, 2, 100},
               entry_price : {Point(600)},
               stop_loss : {Point(600) - d : d \in RiskDistances}
                               \cup {Point(600) + d : d \in RiskDistances},
               meta : [tick_size : {0, tick_size}, tick_value : {1, tick_value},
                       lot_step : {1, 2, 10}, min_lot : {1, 2, 3, 10}],
               res : {[lot |-> 0, risk_used |-> 0]}]

\* one compute_lot(balance, entry_price, stop_loss, meta) call
ComputeLot ==
    /\ ~rk.done
    /\ rk' = [rk EXCEPT !.done = TRUE,
                        !.res = compute_lot_result(rk.balance, rk.risk_pct, rk.entry_price,
                                                   rk.stop_loss, rk.meta)]
    /\ UNCHANGED <<svcVars, pln, ema, ind, det, clk, sch>>

RiskNext == ComputeLot

RiskSpec == RiskInit /\ [][RiskNext]_vars

\* ------------------------------------------ build_from_last4, call by call
\* min(c.low for c in last4) / max(c.high for c in last4)
RECURSIVE extreme(_, _)
extreme(side, last4) ==
    IF Len(last4) = 1
    THEN IF side = "BUY" THEN last4[1].low ELSE last4[1].high
    ELSE IF side = "BUY" THEN Min(last4[1].low, extreme(side, Tail(last4)))
         ELSE Max(last4[1].high, extreme(side, Tail(last4)))

\* OrderPlannerService._apply_atr_widening; atr_sl_multiplier is counted in
\* tenths, a missing snapshot or ATR is NoAtr
apply_atr_widening(side, sl, entry_ref, atr14, k10) ==
    LET k == Max(0, k10)
        base_distance == Abs(entry_ref - sl)
        \* entry_ref -/+ atr14 * k, in tenths of the price unit
        widened10 == IF side = "BUY" THEN 10 * entry_ref - atr14 * k
                     ELSE 10 * entry_ref + atr14 * k
        widened_sl == round_to_digits_of(widened10, 10 * Sub)
    IN  IF atr14 = NoAtr \/ k <= 0 THEN sl
        ELSE IF 10 * base_distance >= atr14 * k THEN sl
        ELSE IF Abs(entry_ref - widened_sl) < base_distance THEN sl
        ELSE widened_sl

\* OrderPlannerService.build_from_last4: the plan's stop, or no plan
build_from_last4(side, last4, atr14, k10, price_ref) ==
    IF Len(last4) < Window THEN [plan |-> FALSE, planned_sl |-> NoPrice]
    ELSE LET sl == round_to_digits(extreme(side, last4))
             entry_ref == IF price_ref = NoPrice THEN last4[Window].close ELSE price_ref
         IN  [plan |-> TRUE,
              planned_sl |-> apply_atr_widening(side, sl, entry_ref, atr14, k10)]

\* closed candles on the instrument's price grid
PlannerBars ==
    {[low |-> Point(9), high |-> Point(10), close |-> Point(10)],
     [low |-> Point(10), high |-> Point(11), close |-> Point(10)],
     [low |-> Point(10), high |-> Point(12), close |-> Point(11)],
     [low |-> Point(8), high |-> Point(9), close |-> Point(9)]}

PlannerInit ==
    /\ ServicesAtRest
    /\ rk = NoRisk /\ ema = NoEma /\ ind = NoInd /\ det = NoDetection /\ clk = NoClock
    /\ sch = NoSched
    /\ pln \in [done : {FALSE}, side : {"BUY", "SELL"},
                last4 : UNION {[1..n -> PlannerBars] : n \in {Window - 1, Window}},
                \* ATR(14): not ready, or a value in price units
                atr14 : {NoAtr, 0, 3, Sub + 2, 2 * Sub + 2},
                \* Settings.atr_sl_multiplier in tenths (default 2.5)
                k10 : {-5, 0, 10, 25},
                price_ref : {NoPrice, Point(8), Point(10)},
                res : {[plan |-> FALSE, planned_sl |-> NoPrice]}]

\* one build_from_last4 call
BuildFromLast4 ==
    /\ ~pln.done
    /\ pln' = [pln EXCEPT !.done = TRUE,
                          !.res = build_from_last4(pln.side, pln.last4, pln.atr14,
                                                   pln.k10, pln.price_ref)]
    /\ UNCHANGED <<svcVars, rk, ema, ind, det, clk, sch>>

PlannerNext == BuildFromLast4

PlannerSpec == PlannerInit /\ [][PlannerNext]_vars

\* ----------------------------------------------------- one EmaState alone
\* EmaSpec updates an empty EmaState of period 1..MaxPeriod with up to
\* period + 1 inputs; the inputs are multiples of 12, so the mean of up to
\* four of them is exact.
EmaInit ==
    /\ ServicesAtRest
    /\ rk = NoRisk /\ pln = NoPlanning /\ ind = NoInd /\ det = NoDetection /\ clk = NoClock
    /\ sch = NoSched
    /\ ema \in {[st |-> ema_empty(p), inputs |-> <<>>] : p \in 1..MaxPeriod}

\* EmaState.update(close)
EmaUpdate ==
    /\ Len(ema.inputs) <= ema.st.period
    /\ \E close \in {12, 24, 36} :
          ema' = [st |-> ema_update(ema.st, close), inputs |-> Append(ema.inputs, close)]
    /\ UNCHANGED <<svcVars, rk, pln, ind, det, clk, sch>>

EmaNext == EmaUpdate

EmaSpec == EmaInit /\ [][EmaNext]_vars

\* --------------------------------------------- the indicators, bar by bar
\* IndSpec feeds a fresh IndicatorsService up to MaxFeed closed candles, in
\* warm-up batches (`left` candles of the batch still to consume) and one by
\* one.  The feed is fixed at construction: closes
\* at 10 points, every second one `swing` higher, highs and lows `range` away
\* from the close.
candle_of(feed, n) ==
    LET close == Point(10) + (n % 2) * feed.swing
    IN  [close |-> close, high |-> close + feed.range, low |-> close - feed.range]

IndInit ==
    /\ ServicesAtRest
    /\ rk = NoRisk /\ pln = NoPlanning /\ ema = NoEma /\ det = NoDetection /\ clk = NoClock
    /\ sch = NoSched
    /\ ind \in {[NoInd EXCEPT !.feed = f] :
                   f \in [swing : {0, Sub, 0 - Sub}, range : {0, 2}]}

\* IndicatorsService.warmup_with_candles(candles): the call, with the number
\* of candles handed over
WarmupWithCandles ==
    /\ ind.left = 0
    /\ \E k \in {1, 13, 34} :
          /\ ind.state.n_closes + k <= MaxFeed
          /\ ind' = [ind EXCEPT !.left = k]
    /\ UNCHANGED <<svcVars, rk, pln, ema, det, clk, sch>>

\* one iteration of `for candle in candles: self._consume_candle(candle)`
WarmupConsume ==
    /\ ind.left > 0
    /\ LET out == consume_candle(ind.state, candle_of(ind.feed, ind.state.n_closes + 1))
       IN  ind' = [ind EXCEPT !.state = out.state, !.snap = out.snap, !.live = FALSE,
                              !.left = @ - 1]
    /\ UNCHANGED <<svcVars, rk, pln, ema, det, clk, sch>>

\* IndicatorsService.on_closed_candle(candle)
IndOnClosedCandle ==
    /\ ind.left = 0
    /\ ind.state.n_closes < MaxFeed
    /\ LET out == consume_candle(ind.state, candle_of(ind.feed, ind.state.n_closes + 1))
       IN  ind' = [ind EXCEPT !.state = out.state, !.snap = out.snap, !.live = TRUE]
    /\ UNCHANGED <<svcVars, rk, pln, ema, det, clk, sch>>

IndNext ==
    \/ WarmupWithCandles
    \/ WarmupConsume
    \/ IndOnClosedCandle

IndSpec == IndInit /\ [][IndNext]_vars

\* ======================================================= pattern detector
compute_bias_ties_bullish(close, ema200) ==
    IF ~ema200.has THEN "NONE" ELSE IF close >= ema200.v THEN "BULLISH" ELSE "BEARISH"

\* compute_bias(close, ema200)
compute_bias(close, ema200) ==
    IF ~ema200.has THEN "NONE"
    ELSE IF close > ema200.v THEN "BULLISH"
    ELSE IF close < ema200.v THEN "BEARISH"
    ELSE "NONE"

\* is_doji(candle, ratio), the ratio counted in tenths
is_doji(candle, ratio10) ==
    LET range == Max(candle.high - candle.low, 0)
        body == Abs(candle.close - candle.open)
    IN  IF range = 0 THEN body = 0 ELSE 10 * body <= ratio10 * range

monotonic_not_strict(values, increasing) ==
    /\ Len(values) > 0
    /\ \A i \in 2..Len(values) :
          IF increasing THEN values[i] >= values[i - 1] ELSE values[i] <= values[i - 1]

\* strictly_monotonic(values, increasing)
strictly_monotonic(values, increasing) ==
    /\ Len(values) > 0
    /\ \A i \in 2..Len(values) :
          IF increasing THEN values[i] > values[i - 1] ELSE values[i] < values[i - 1]

NoSignal == [signal |-> FALSE, side |-> "BUY", candle_time_utc |-> NoTime,
             bias |-> "NONE", is_live |-> FALSE]

\* detect_pattern_and_signal(window4, snaps4, doji_ratio, is_live_bar)
detect_pattern_and_signal(window4, snaps4, doji_ratio10, is_live_bar) ==
    IF Len(window4) < Window \/ Len(snaps4) < Window THEN NoSignal
    ELSE
    LET c1 == window4[1]
        c4 == window4[4]
        bias == compute_bias(c4.close, snaps4[4].ema200)
        is_bear(c) == c.close < c.open
        is_bull(c) == c.close > c.open
        closes == [i \in 1..Window |-> window4[i].close]
        hist_values == [i \in 1..Window |-> snaps4[i].histogram.v]
        doji_count == Cardinality({i \in 2..Window : is_doji(window4[i], doji_ratio10)})
        sig(side) == [signal |-> TRUE, side |-> side, candle_time_utc |-> c4.time_utc,
                      bias |-> bias, is_live |-> is_live_bar]
    IN  IF \E i \in 1..Window : ~snaps4[i].ema200.has \/ ~snaps4[i].histogram.has
        THEN NoSignal
        ELSE IF bias = "NONE" THEN NoSignal
        ELSE IF doji_count > 1 THEN NoSignal
        ELSE IF bias = "BULLISH"
        THEN IF ~is_bear(c1) THEN NoSignal
             ELSE IF \E i \in 2..Window :
                        ~is_doji(window4[i], doji_ratio10) /\ ~is_bull(window4[i])
                  THEN NoSignal
             ELSE IF ~strictly_monotonic(closes, TRUE) THEN NoSignal
             ELSE IF ~strictly_monotonic(hist_values, TRUE) THEN NoSignal
             ELSE sig("BUY")
        ELSE IF ~is_bull(c1) THEN NoSignal
             ELSE IF \E i \in 2..Window :
                        ~is_doji(window4[i], doji_ratio10) /\ ~is_bear(window4[i])
                  THEN NoSignal
             ELSE IF ~strictly_monotonic(closes, FALSE) THEN NoSignal
             ELSE IF ~strictly_monotonic(hist_values, FALSE) THEN NoSignal
             ELSE sig("SELL")

\* ------------------------------------------- SignalService, one call alone
\* DetSpec makes one SignalService.on_closed call on a buffer that already
\* holds the two or three bars before it.  A window is put together from a
\* sequence of closes, a candle shape per bar, a sequence of histogram values
\* and a sequence of EMA values.
candle_shaped(shape, close, t) ==
    CASE shape = "bear" ->
            [time_utc |-> t, open |-> close + 2, high |-> close + 2, low |-> close, close |-> close]
      [] shape = "bull" ->
            [time_utc |-> t, open |-> close - 2, high |-> close, low |-> close - 2, close |-> close]
      [] shape = "doji_bull" ->
            [time_utc |-> t, open |-> close - 1, high |-> close + 10, low |-> close - 10,
             close |-> close]
      [] shape = "doji_bear" ->
            [time_utc |-> t, open |-> close + 1, high |-> close + 10, low |-> close - 10,
             close |-> close]
      [] OTHER ->
            [time_utc |-> t, open |-> close, high |-> close, low |-> close, close |-> close]

\* The closes rise, fall or stall; the histogram rises, falls, stalls or is
\* not ready on the first bar; the EMA200 is below or above every close, not
\* ready on the first bar, not ready at all, or equal to the last close.
DetInit ==
    /\ ServicesAtRest
    /\ rk = NoRisk /\ pln = NoPlanning /\ ema = NoEma /\ ind = NoInd /\ clk = NoClock
    /\ sch = NoSched
    /\ \E closes \in {<<Point(10), Point(11), Point(12), Point(13)>>,
                      <<Point(13), Point(12), Point(11), Point(10)>>,
                      <<Point(10), Point(11), Point(11), Point(12)>>},
          hists \in {<<Value(-1), Value(0), Value(1), Value(2)>>,
                     <<Value(2), Value(1), Value(0), Value(-1)>>,
                     <<Value(0), Value(1), Value(1), Value(2)>>,
                     <<Absent, Value(0), Value(1), Value(2)>>},
          n \in {Window - 1, Window},
          shapes \in [1..Window -> {"bear", "bull", "doji_bull", "doji_bear", "flat"}] :
        \E emas \in {[i \in 1..Window |-> Value(Point(5))],
                     [i \in 1..Window |-> Value(Point(20))],
                     [i \in 1..Window |-> IF i = 1 THEN Absent ELSE Value(Point(5))],
                     [i \in 1..Window |-> Absent],
                     [i \in 1..Window |-> Value(closes[Window])]} :
          LET first == Window - n + 1
              cs == [i \in 1..Window |-> candle_shaped(shapes[i], closes[i], i)]
              ss == [i \in 1..Window |-> [ema200 |-> emas[i], histogram |-> hists[i]]]
          IN  det = [done |-> FALSE,
                     candles |-> SubSeq(cs, first, Window - 1),
                     snaps |-> SubSeq(ss, first, Window - 1),
                     candle |-> cs[Window], snapshot |-> ss[Window],
                     is_live_bar |-> TRUE, res |-> NoSignal]

\* SignalService.on_closed(candle, snapshot, is_live_bar), doji_ratio 0.1
SignalOnClosed ==
    /\ ~det.done
    /\ LET candles == Append4(det.candles, det.candle)
           snaps == Append4(det.snaps, det.snapshot)
       IN  det' = [det EXCEPT
                     !.done = TRUE, !.candles = candles, !.snaps = snaps,
                     !.res = IF Len(candles) < Window THEN NoSignal
                             ELSE detect_pattern_and_signal(candles, snaps, 1,
                                                            det.is_live_bar)]
    /\ UNCHANGED <<svcVars, rk, pln, ema, ind, clk, sch>>

DetNext == SignalOnClosed

DetSpec == DetInit /\ [][DetNext]_vars

\* ======================================================== session clock
\* Local datetimes are records [day, hour, minute]; days are counted from a
\* Monday, so day % 7 is datetime.weekday().  Asia/Jakarta has no daylight
\* saving, so timedelta(days=1) moves the day and nothing else.
at_hour(day, hour) == [day |-> day, hour |-> hour, minute |-> 0]

NoDatetime == [has |-> FALSE, dt |-> at_hour(0, 0)]

SomeDatetime(dt) == [has |-> TRUE, dt |-> dt]

\* is_weekday(dt), on the day of dt
is_weekday(day) == day % 7 < 5

\* _is_overnight(window)
is_overnight(window) == window.end_hour <= window.start_hour

\* in_session(dt, window)
in_session(dt, window) ==
    IF ~is_overnight(window)
    THEN is_weekday(dt.day) /\ window.start_hour <= dt.hour /\ dt.hour < window.end_hour
    ELSE IF is_weekday(dt.day) /\ dt.hour >= window.start_hour THEN TRUE
    ELSE is_weekday(dt.day - 1) /\ dt.hour < window.end_hour

\* the loop `while not is_weekday(prev_day): prev_day -= timedelta(days=1)`
RECURSIVE previous_weekday(_)
previous_weekday(day) == IF is_weekday(day) THEN day ELSE previous_weekday(day - 1)

\* the loop `while not is_weekday(day): day = day + timedelta(days=1)`
RECURSIVE following_weekday(_)
following_weekday(day) == IF is_weekday(day) THEN day ELSE following_weekday(day + 1)

\* session_start_for(dt, window)
session_start_for(dt, window) ==
    IF ~in_session(dt, window) THEN NoDatetime
    ELSE IF ~is_overnight(window) THEN SomeDatetime(at_hour(dt.day, window.start_hour))
    ELSE IF is_weekday(dt.day) /\ dt.hour >= window.start_hour
    THEN SomeDatetime(at_hour(dt.day, window.start_hour))
    ELSE SomeDatetime(at_hour(previous_weekday(dt.day - 1), window.start_hour))

next_day_start(after, window) == at_hour(after.day + 1, window.start_hour)

\* _next_weekday_start(after, window)
next_weekday_start(after, window) ==
    at_hour(following_weekday(after.day + 1), window.start_hour)

\* next_session_start(dt, window)
next_session_start(dt, window) ==
    LET start_of_current == session_start_for(dt, window)
        today_start == at_hour(dt.day, window.start_hour)
        before_today_start == dt.hour < window.start_hour
    IN  IF start_of_current.has THEN next_weekday_start(start_of_current.dt, window)
        ELSE IF ~is_overnight(window)
        THEN IF is_weekday(dt.day) /\ before_today_start THEN today_start
             ELSE next_weekday_start(dt, window)
        ELSE IF is_weekday(dt.day) /\ before_today_start THEN today_start
        ELSE IF /\ is_weekday(dt.day)
                /\ window.end_hour <= dt.hour /\ dt.hour < window.start_hour
        THEN today_start
        ELSE next_weekday_start(dt, window)

\* ----------------------------------------------- the clock, one query alone
\* ClockSpec asks the three questions about one local time and one window:
\* the overnight default 07:00-03:00, a same-day window 09:00-17:00, or a
\* window whose end hour equals its start hour (22 or 0), which the code
\* treats as overnight.
ClockInit ==
    /\ ServicesAtRest
    /\ rk = NoRisk /\ pln = NoPlanning /\ ema = NoEma /\ ind = NoInd /\ det = NoDetection
    /\ sch = NoSched
    /\ \E day \in 0..MaxDay, hour \in 0..23, minute \in {0, 30},
          window \in {[start_hour |-> session_start_hour, end_hour |-> session_end_hour],
                      [start_hour |-> 9, end_hour |-> 17],
                      [start_hour |-> 22, end_hour |-> 22],
                      [start_hour |-> 0, end_hour |-> 0]} :
          clk = [done |-> FALSE, window |-> window,
                 dt |-> [day |-> day, hour |-> hour, minute |-> minute],
                 in_session |-> FALSE, session_start |-> NoDatetime,
                 next_start |-> at_hour(0, 0)]

SessionQuery ==
    /\ ~clk.done
    /\ clk' = [clk EXCEPT
                 !.done = TRUE,
                 !.in_session = in_session(clk.dt, clk.window),
                 !.session_start = session_start_for(clk.dt, clk.window),
                 !.next_start = next_session_start(clk.dt, clk.window)]
    /\ UNCHANGED <<svcVars, rk, pln, ema, ind, det, sch>>

ClockNext == SessionQuery

ClockSpec == ClockInit /\ [][ClockNext]_vars

\* ============================================================== scheduler
\* An instant of the scheduler's clock is [s, us]: whole seconds since 00:00
\* local time of day 0 (a Monday), and whether microseconds are left over.
\* the fields of now_local() the session functions read
local_datetime(t) ==
    [day |-> t.s \div 86400, hour |-> (t.s % 86400) \div 3600,
     minute |-> (t.s % 3600) \div 60]

next_close_or_now(t, tf_sec) ==
    LET day_start == (t.s \div 86400) * 86400
        elapsed == t.s - day_start
        remainder == elapsed % tf_sec
        delta == IF remainder # 0 THEN tf_sec - remainder ELSE 0
    IN  [s |-> day_start + elapsed + delta, us |-> 0]

\* next_aligned_close(datetime, timeframe), tf_sec the timeframe's seconds;
\* int(total_seconds()) drops the microseconds of `datetime`
next_aligned_close(t, tf_sec) ==
    LET day_start == (t.s \div 86400) * 86400
        elapsed == t.s - day_start
        remainder == elapsed % tf_sec
        delta == IF remainder # 0 THEN tf_sec - remainder ELSE tf_sec
    IN  [s |-> day_start + elapsed + delta, us |-> 0]

\* sleep_until(target): the instants at which it can return
sleep_until(t, target) ==
    IF target.s > t.s \/ (target.s = t.s /\ target.us > t.us)
    THEN {target, [target EXCEPT !.us = 1]}
    ELSE {t}

on_candle_close_uncaught(site) ==
    CASE site = "none" -> "returned"
      [] site = "in_try" -> "logged_by_monitor"
      [] OTHER -> "uncaught"

\* what becomes of an exception raised in process_once(): inside the try of
\* _process_symbol it is logged there; before it (the first fetch_latest,
\* Settings.model_validate) it leaves process_once and run_forever's
\* `except Exception` logs it
on_candle_close(site) ==
    CASE site = "none" -> "returned"
      [] site = "in_try" -> "logged_by_monitor"
      [] OTHER -> "logged_by_scheduler"

SchedInit ==
    /\ ServicesAtRest
    /\ rk = NoRisk /\ pln = NoPlanning /\ ema = NoEma /\ ind = NoInd /\ det = NoDetection
    /\ clk = NoClock
    /\ \E s \in {0, 9000, 10799, 43200, 5 * 86400 + 14400}, us \in {0, 1},
          tf_sec \in {900, 14400},
          window \in {[start_hour |-> session_start_hour, end_hour |-> session_end_hour],
                      [start_hour |-> 9, end_hour |-> 17]} :
          sch = [pc |-> "check", now |-> [s |-> s, us |-> us], window |-> window,
                 tf_sec |-> tf_sec, target |-> [s |-> 0, us |-> 0],
                 close |-> [s |-> 0, us |-> 0], prev_close |-> [s |-> 0, us |-> 0],
                 calls |-> 0, outcome |-> "returned"]

\* run_forever, the top of the loop up to the sleep_until it chooses
RunForeverCheck ==
    /\ sch.pc = "check"
    /\ sch.now.s < (MaxDay + 1) * 86400
    /\ IF ~in_session(local_datetime(sch.now), sch.window)
       THEN LET start == next_session_start(local_datetime(sch.now), sch.window)
            IN  sch' = [sch EXCEPT !.pc = "sleep_session",
                                   !.target = [s |-> start.day * 86400 + start.hour * 3600,
                                               us |-> 0]]
       ELSE LET target == next_aligned_close(sch.now, sch.tf_sec)
            IN  sch' = [sch EXCEPT !.pc = "sleep_close",
                                   !.prev_close = sch.close,
                                   !.close = target,
                                   !.target = [target EXCEPT !.s = @ + buffer_seconds]]
    /\ UNCHANGED <<svcVars, rk, pln, ema, ind, det, clk>>

\* run_forever: sleep_until returns; `continue` out of session, the callback
\* is due in session
RunForeverSleep ==
    /\ sch.pc \in {"sleep_session", "sleep_close"}
    /\ \E woke \in sleep_until(sch.now, sch.target) :
          sch' = [sch EXCEPT !.now = woke,
                             !.pc = IF sch.pc = "sleep_session" THEN "check" ELSE "call"]
    /\ UNCHANGED <<svcVars, rk, pln, ema, ind, det, clk>>

\* run_forever: try on_candle_close() except Exception; the call takes no
\* time to speak of, a few seconds, or a whole timeframe
RunForeverCall ==
    /\ sch.pc = "call"
    /\ \E site \in {"none", "in_try", "before_try"}, took \in {0, 2, sch.tf_sec} :
          sch' = [sch EXCEPT !.now = [s |-> sch.now.s + took, us |-> 1],
                             !.calls = IF @ < 2 THEN @ + 1 ELSE @,
                             !.outcome = on_candle_close(site),
                             !.pc = IF on_candle_close(site) = "uncaught" THEN "crashed"
                                    ELSE "check"]
    /\ UNCHANGED <<svcVars, rk, pln, ema, ind, det, clk>>

SchedNext ==
    \/ RunForeverCheck
    \/ RunForeverSleep
    \/ RunForeverCall

SchedSpec == SchedInit /\ [][SchedNext]_vars

\* ------------------------------------------------------------------ claims
FreezeOn == guard.freeze_hours # NoFreeze
BotPositions == {i \in 1..Len(positions) : positions[i].bot}

\* C1: a process_once() call in which every fetch (the first one and all
\* hydration retries) shows a latest epoch <= the cursor feeds no candle,
\* emits no signal, submits no order and leaves the cursor where it was.
C1_ReplayUnchangedIsNoop ==
    (cyc.ran /\ cyc.cursor0 # NoEpoch /\ cyc.stale) =>
        /\ cyc.fed = <<>>
        /\ cyc.signals = 0
        /\ cyc.orders = 0
        /\ last_seen_epoch = cyc.cursor0

\* a replay that went through every hydration retry and came back
C1_Witness ==
    /\ pc = "idle"
    /\ cyc.ran /\ cyc.cursor0 # NoEpoch /\ cyc.latest0 # NoEpoch /\ cyc.stale
    /\ cyc.fetches = 1 + HYDRATE_MAX_RETRIES
    /\ \E e \in Epochs : fed[e] > 0

\* C2: no candle epoch is fed to the indicators more than once.
C2_FedAtMostOnce == \A e \in Epochs : fed[e] <= 1

\* C3: once the cursor is set, every closed bar in (first cursor value, cursor]
\* has been fed.
C3_NoBarSkipped ==
    firstCursor # NoEpoch =>
        \A e \in Epochs : (firstCursor < e /\ e <= last_seen_epoch) => fed[e] >= 1

\* C4: with cursor E0, latest E0 + k (k >= 1), all k bars returned and nothing
\* raised, the finished cycle has fed exactly E0+1 .. E0+k in ascending order,
\* marked only the last one live, and left the cursor at E0 + k.
C4_GapRecovery ==
    (/\ pc = "idle" /\ cyc.ran
     /\ cyc.cursor0 # NoEpoch /\ cyc.latest0 > cyc.cursor0
     /\ cyc.full /\ ~cyc.exc) =>
        LET k == cyc.latest0 - cyc.cursor0
        IN  /\ Len(cyc.fed) = k
            /\ \A i \in 1..Len(cyc.fed) :
                  /\ cyc.fed[i][1] = cyc.cursor0 + i
                  /\ cyc.fed[i][2] = (i = k)
            /\ last_seen_epoch = cyc.latest0

\* the three-bar gap of the spec's scenario, recovered
C4_Witness ==
    /\ pc = "idle" /\ cyc.ran /\ cyc.full /\ ~cyc.exc
    /\ cyc.cursor0 # NoEpoch /\ cyc.latest0 = cyc.cursor0 + 3
    /\ Len(cyc.fed) = 3

\* C5: when an exception ends the cycle while a bar is being fed, the cursor
\* is still below that bar's epoch.
C5_CursorBelowFailedBar ==
    cyc.excBar # NoEpoch => last_seen_epoch < cyc.excBar

\* C6: send_market_order is invoked only for a bar that was marked live, and
\* that bar is the latest closed epoch fetched in the cycle.
C6_OrdersOnlyOnLiveBar ==
    cyc.order # NoOrder =>
        /\ cyc.order.is_live
        /\ cyc.order.epoch = cyc.order.latest

\* a cycle in which a backfilled bar completed a pattern (no order for it) and
\* the live bar led to an order
C6_Witness ==
    /\ cyc.staleSignal
    /\ cyc.order # NoOrder
    /\ cyc.orders = 1

\* C7: every feed of a closed bar comes with one PositionGuard.on_closed_candle
\* call for that bar.
C7_GuardOncePerBar ==
    \A i \in 1..Len(cyc.fed) : cyc.fed[i][3]

\* C8: no market order is sent while the gateway reports an open position, and
\* at most one pipeline-opened position exists at any time.
C8_NoOrderWhileOpen ==
    /\ cyc.order # NoOrder => cyc.order.npos = 0
    /\ Cardinality(BotPositions) <= 1

\* a live signal dropped because the pipeline's own position is still open
C8_Witness ==
    /\ cyc.skipOpen
    /\ BotPositions # {}

\* C9: with freeze_hours configured, no order is sent at an instant before
\* last_closed_at + freeze_hours, last_closed_at being the guard's value after
\* it has handled the bar the order is for.
C9_NoOrderInFreeze ==
    (cyc.order # NoOrder /\ FreezeOn /\ cyc.order.last_closed_at_utc # NoTime) =>
        cyc.order.at >= cyc.order.last_closed_at_utc + guard.freeze_hours

\* a live signal blocked by the freeze window on the very bar on which the
\* guard noticed that its tracked position had closed
C9_Witness ==
    /\ FreezeOn
    /\ cyc.blocked
    /\ cyc.orders = 0

\* C10: with freeze_hours configured, no order is sent within freeze_hours of
\* the instant at which a position of the instrument closed.
C10_FreezeAfterEveryClose ==
    (cyc.order # NoOrder /\ FreezeOn /\ cyc.order.posClose # NoTime) =>
        cyc.order.at >= cyc.order.posClose + guard.freeze_hours

\* the last guard.on_closed_candle call found its tracked ticket gone
GuardSawClose == sl_log.closed

\* C11 (as stated): on the bar on which the tracked ticket is found gone the
\* guard is Idle again (ticket and break-even-armed time cleared), has sent no
\* stop modification, and the freeze window begins one timeframe after that
\* bar's close time (its open time plus two timeframes).
C11_FreezeFromCloseTimePlusTimeframe ==
    GuardSawClose =>
        /\ guard.open_position_ticket = NoTicket
        /\ guard.be_armed_at_utc = NoTime
        /\ sl_log.kind = "none"
        /\ guard.last_closed_at_utc = (sl_log.bar + timeframe_sec) + timeframe_sec

\* C11 (amended): as above, but the freeze window begins at the bar's open
\* time plus one timeframe, which is the bar's close time.
C11_ResetAndFreezeFromBarClose ==
    GuardSawClose =>
        /\ guard.open_position_ticket = NoTicket
        /\ guard.be_armed_at_utc = NoTime
        /\ sl_log.kind = "none"
        /\ guard.last_closed_at_utc = sl_log.bar + timeframe_sec

\* an armed guard finds its position gone and is reset
C11_Witness ==
    /\ GuardSawClose
    /\ sl_log.armed # NoTime
    /\ guard.last_closed_at_utc = sl_log.bar + timeframe_sec

\* C12: every stop modification the guard sends (break-even or trailing) is
\* strictly on the protective side of the position's current stop: above it
\* for a long position, below it for a short one.
C12_StopMovesProtectiveOnly ==
    sl_log.kind # "none" =>
        IF sl_log.side = "BUY" THEN sl_log.sl > sl_log.current_sl
        ELSE sl_log.sl < sl_log.current_sl

\* a short position's stop lowered by the trailing logic after break-even
C12_Witness ==
    /\ sl_log.kind = "trail"
    /\ sl_log.side = "SELL"
    /\ sl_log.sl < sl_log.current_sl

\* C13: break-even armed implies that a ticket is tracked.
C13_ArmedImpliesTracked ==
    guard.be_armed_at_utc # NoTime => guard.open_position_ticket # NoTicket

\* armed, and the position already closed at the broker: the next bar resets
C13_Witness ==
    /\ guard.be_armed_at_utc # NoTime
    /\ positions = <<>>

\* C14: a trailing modification is sent only for the tracked position, only
\* when break-even was armed on a strictly earlier bar, and only under
\* take-profit mode trail or hybrid.
C14_TrailingOnlyAfterBreakeven ==
    sl_log.kind = "trail" =>
        /\ sl_log.ticket # NoTicket
        /\ sl_log.armed # NoTime
        /\ sl_log.armed < sl_log.bar
        /\ settings.take_profit_mode \in {"trail", "hybrid"}

\* a trailing modification accepted by the broker under mode hybrid
C14_Witness ==
    /\ sl_log.kind = "trail"
    /\ sl_log.ok
    /\ settings.take_profit_mode = "hybrid"

\* C15: every stop the guard sends is at least stops_level * tick_size away
\* from the close of the bar it is sent on.
C15_StopRespectsMinDistance ==
    sl_log.kind # "none" =>
        Abs(sl_log.close - sl_log.sl) >= min_distance(settings)

\* C16: a stop sent by the trailing logic is not on the loss side of the
\* commission-aware break-even price.
C16_TrailingNotPastBreakeven ==
    sl_log.kind = "trail" =>
        IF sl_log.side = "BUY" THEN sl_log.sl >= sl_log.be_price
        ELSE sl_log.sl <= sl_log.be_price

\* the execute_market call has been made with a quote at hand
ExecEntry == IF ex.plan.side = "BUY" THEN ex.gw.ask ELSE ex.gw.bid
ExecMinDist == ex.gw.meta.stops_level * ex.gw.meta.tick_size
ExecPlannedDist == Abs(ExecEntry - ex.plan.planned_sl)
\* the widening factor minimum / planned distance exceeds the configured bound
ExecFactorTooLarge ==
    ExecPlannedDist = 0 \/ 10 * ExecMinDist > ex.cfg.nudge_factor10 * ExecPlannedDist
ExecPolicyRejects ==
    /\ ExecPlannedDist < ExecMinDist
    /\ \/ ex.cfg.nudge_mode = "off"
       \/ ex.cfg.nudge_mode = "conservative" /\ ExecFactorTooLarge

\* C17: a planned stop at least stops_level * tick_size from entry is kept;
\* a closer one is rejected under "off", rejected under "conservative" iff
\* minimum / planned distance exceeds the configured factor, and otherwise
\* widened to exactly the minimum distance; every submitted order's stop is at
\* least stops_level * tick_size from entry.
C17_NudgePolicy ==
    (ex.done /\ ex.gw.has_quote) =>
        /\ ExecPlannedDist >= ExecMinDist =>
              ex.res.why # "nudge" /\ ex.res.nudged = ex.plan.planned_sl
        /\ ExecPlannedDist < ExecMinDist =>
              /\ (ex.res.why = "nudge") = ExecPolicyRejects
              /\ ex.res.why # "nudge" => Abs(ExecEntry - ex.res.nudged) = ExecMinDist
        /\ ex.res.sent => Abs(ExecEntry - ex.res.sl) >= ExecMinDist

\* a stop widened under the conservative policy, and the order submitted
C17_Witness ==
    /\ ex.done /\ ex.res.sent
    /\ ex.cfg.nudge_mode = "conservative"
    /\ ExecPlannedDist < ExecMinDist
    /\ ExecPlannedDist > 0
    /\ Abs(ExecEntry - ex.res.sl) = ExecMinDist

\* C18 (as stated): for every submitted order |take_profit - entry| equals
\* rr * |entry - stop| exactly, take_profit on the profit side of entry.
C18_RiskRewardExact ==
    (ex.done /\ ex.res.sent) =>
        /\ 2 * Abs(ex.res.tp - ExecEntry) = ex.plan.rr2 * Abs(ExecEntry - ex.res.sl)
        /\ IF ex.plan.side = "BUY" THEN ex.res.tp > ExecEntry ELSE ex.res.tp < ExecEntry

\* C18 (amended): for every submitted order the take-profit is
\* entry +/- rr * |entry - stop| rounded to the instrument's digits, the stop
\* being the nudged stop before its own rounding: it is within half a point of
\* that distance and never on the loss side of entry.
C18_RiskRewardUpToRounding ==
    (ex.done /\ ex.res.sent) =>
        /\ Abs(2 * Abs(ex.res.tp - ExecEntry)
               - ex.plan.rr2 * Abs(ExecEntry - ex.res.nudged)) <= Sub
        /\ IF ex.plan.side = "BUY" THEN ex.res.tp >= ExecEntry ELSE ex.res.tp <= ExecEntry

\* a submitted order whose stop was widened and whose take-profit had to be
\* rounded
C18_Witness ==
    /\ ex.done /\ ex.res.sent
    /\ ex.res.nudged # ex.plan.planned_sl
    /\ 2 * Abs(ex.res.tp - ExecEntry) # ex.plan.rr2 * Abs(ExecEntry - ex.res.nudged)

\* C19: without a quote, with a stop the policy rejects, or with a lot of 0
\* (zero risk target, zero stop distance, zero tick size) no order is sent and
\* the result is none; a submission that raises or is not filled gives none as
\* well; a none result leaves positions, guard and cursor as they were.
C19_NoOrderOnRejection ==
    ex.done =>
        /\ (\/ ~ex.gw.has_quote
            \/ ExecPolicyRejects
            \/ ex.gw.balance * ex.cfg.risk_pct <= 0
            \/ ex.res.sl = ExecEntry
            \/ ex.gw.meta.tick_size = 0) =>
               ~ex.res.sent /\ ex.res.result = "none"
        /\ ex.gw.send # "filled" => ex.res.result = "none"
        /\ ex.res.result = "none" =>
               /\ positions = <<>>
               /\ guard.open_position_ticket = NoTicket
               /\ guard.last_closed_at_utc = NoTime
               /\ last_seen_epoch = NoEpoch

\* the stop rounds onto the entry price: lot 0, nothing sent
C19_Witness ==
    /\ ex.done /\ ex.gw.has_quote
    /\ ex.gw.balance > 0 /\ ex.gw.meta.tick_size > 0
    /\ ~ExecPolicyRejects
    /\ ex.plan.planned_sl # ExecEntry
    /\ ex.res.sl = ExecEntry
    /\ ex.res.why = "lot" /\ ~ex.res.sent

\* C20: an order is submitted for a bar only when that bar is fed for the
\* first time (one feed makes at most one send_market_order call, so each bar
\* epoch sees at most one submission), and the call that follows a failed
\* submission for bar B does not feed B again.
C20_SignalNeverRetried ==
    /\ cyc.order # NoOrder => cyc.order.nfed = 0
    /\ cyc.prevFailed # NoEpoch =>
          \A i \in 1..Len(cyc.fed) : cyc.fed[i][1] # cyc.prevFailed

\* the submission for bar B raised, and the next process_once() call has run
\* to its end without another order
C20_Witness ==
    /\ cyc.prevFailed # NoEpoch
    /\ cyc.ran /\ pc = "idle"
    /\ cyc.fetches = 1 + HYDRATE_MAX_RETRIES
    /\ cyc.orders = 0
    /\ last_seen_epoch = cyc.prevFailed

\* a finished compute_lot call on the inputs the risk engine's contract
\* covers: positive balance, risk percentage in (0, 1], non-zero stop distance
RiskValidCall ==
    /\ rk.done
    /\ rk.balance > 0 /\ rk.risk_pct \in 1..100
    /\ rk.stop_loss # rk.entry_price

RiskDistance == Abs(rk.entry_price - rk.stop_loss)

\* risk_target / risk_per_lot floored to lot_step, in hundredths of a lot
RiskReference ==
    ((rk.balance * rk.risk_pct * rk.meta.tick_size)
        \div (RiskDistance * rk.meta.tick_value * rk.meta.lot_step)) * rk.meta.lot_step

\* the lot reached the clamp `lot = max(lot, meta.min_lot)` from below
RiskClampedUp == rk.meta.tick_size > 0 /\ RiskReference < rk.meta.min_lot

\* C21: for positive balance, risk percentage in (0, 1] and non-zero stop
\* distance, compute_lot's risk_used is at most balance * risk_percentage,
\* also when the lot was clamped up to min_lot.
C21_RiskUsedWithinTarget ==
    RiskValidCall =>
        rk.res.risk_used <= rk.balance * rk.risk_pct * rk.meta.tick_size

\* C22: for valid inputs with lot_step > 0 the returned lot is a multiple of
\* lot_step and at least min_lot, whatever min_lot is.
C22_LotMultipleOfStepAboveMin ==
    (RiskValidCall /\ rk.meta.tick_size > 0 /\ rk.meta.lot_step > 0) =>
        /\ rk.res.lot % rk.meta.lot_step = 0
        /\ rk.res.lot >= rk.meta.min_lot

PlannerRef ==
    IF pln.price_ref = NoPrice THEN pln.last4[Len(pln.last4)].close ELSE pln.price_ref

\* C24: build_from_last4 widens only: the returned stop is never closer to the
\* reference price than the baseline 4-bar extreme; with ATR present and a
\* positive multiplier its distance from the reference price is at least
\* multiplier * ATR; there is no plan only when fewer than 4 candles are given.
C24_WidensOnlyToAtrDistance ==
    pln.done =>
        /\ pln.res.plan <=> Len(pln.last4) >= Window
        /\ pln.res.plan =>
              /\ Abs(PlannerRef - pln.res.planned_sl)
                    >= Abs(PlannerRef - extreme(pln.side, pln.last4))
              /\ (pln.atr14 # NoAtr /\ pln.k10 > 0) =>
                    10 * Abs(PlannerRef - pln.res.planned_sl) >= pln.k10 * pln.atr14

\* C25: readiness is append-only over warm-up and live feeding: once EMA200,
\* the MACD line, signal or histogram, or ATR14 is present in a snapshot, it is
\* present in every later snapshot.
C25_ReadinessAppendOnly ==
    [][/\ ind.snap.ema200.has => ind'.snap.ema200.has
       /\ ind.snap.macd.has => ind'.snap.macd.has
       /\ ind.snap.signal.has => ind'.snap.signal.has
       /\ ind.snap.histogram.has => ind'.snap.histogram.has
       /\ ind.snap.atr14.has => ind'.snap.atr14.has]_vars

\* everything is ready in a live snapshot, bars after each became ready
C25_Witness ==
    /\ ind.live /\ ind.state.n_closes = MaxFeed
    /\ ind.snap.ema200.has /\ ind.snap.macd.has /\ ind.snap.signal.has
    /\ ind.snap.histogram.has /\ ind.snap.atr14.has

\* C26: in every snapshot a bars_until_ready counter is 0 exactly when the
\* value it counts down to (EMA200, MACD histogram, ATR14) is present.
C26_CountersMatchReadiness ==
    ind.snap.made =>
        /\ ind.snap.bars_until_ready_ema200 = 0 <=> ind.snap.ema200.has
        /\ ind.snap.bars_until_ready_macd_histogram = 0 <=> ind.snap.histogram.has
        /\ ind.snap.bars_until_ready_atr14 = 0 <=> ind.snap.atr14.has

\* the inputs of the EmaState so far were all the same value
EmaIdenticalInputs ==
    \A i \in 1..Len(ema.inputs) : ema.inputs[i] = ema.inputs[1]

\* C27: an empty EMA state of period p >= 1 has no value after fewer than p
\* inputs; after exactly p inputs its value is their arithmetic mean (V for p
\* identical inputs V) and its seed buffer is empty.
C27_EmaSeeding ==
    /\ Len(ema.inputs) < ema.st.period => ~ema.st.value.has
    /\ Len(ema.inputs) = ema.st.period =>
          /\ ema.st.value.has
          /\ ema.st.period * ema.st.value.v = Sum(ema.inputs)
          /\ ema.st.seed = <<>>
          /\ EmaIdenticalInputs => ema.st.value.v = ema.inputs[1]

\* the longest period, seeded with identical inputs
C27_Witness ==
    /\ Len(ema.inputs) = ema.st.period /\ ema.st.period = MaxPeriod
    /\ EmaIdenticalInputs
    /\ ema.st.value = Value(24)

\* ---------------------------------------------------------- pattern detector
\* the call was made on a full window of 4 bars
DetOnWindow == det.done /\ Len(det.candles) = Window

\* the long pattern as the claim words it: bearish first candle, strictly
\* increasing closes, strictly increasing histogram, at most one doji among
\* the last 3 with the others bullish, last close above its EMA
DetLongPattern ==
    LET c == det.candles
        s == det.snaps
    IN  /\ c[1].close < c[1].open
        /\ \A i \in 1..(Window - 1) : c[i].close < c[i + 1].close
        /\ \A i \in 1..Window : s[i].histogram.has
        /\ \A i \in 1..(Window - 1) : s[i].histogram.v < s[i + 1].histogram.v
        /\ Cardinality({i \in 2..Window : is_doji(c[i], 1)}) <= 1
        /\ \A i \in 2..Window : is_doji(c[i], 1) \/ c[i].close > c[i].open
        /\ s[Window].ema200.has /\ c[Window].close > s[Window].ema200.v

\* the mirrored conditions a SELL rests on
DetShortShape ==
    LET c == det.candles
        s == det.snaps
    IN  /\ c[1].close > c[1].open
        /\ \A i \in 1..(Window - 1) : c[i].close > c[i + 1].close
        /\ \A i \in 1..(Window - 1) : s[i].histogram.v > s[i + 1].histogram.v

DetEmaOnAll == \A i \in 1..Window : det.snaps[i].ema200.has

DetLongSignal ==
    /\ det.res.signal /\ det.res.side = "BUY"
    /\ det.res.candle_time_utc = det.candles[Window].time_utc

\* what a signal always rests on: the side matches the bias, and the first
\* candle's colour, the closes and the histogram all run the signal's way
DetSignalSound ==
    det.res.signal =>
        /\ det.res.bias \in {"BULLISH", "BEARISH"}
        /\ det.res.side = "BUY" <=> det.res.bias = "BULLISH"
        /\ det.res.side = "SELL" <=> det.res.bias = "BEARISH"
        /\ det.res.side = "BUY" => DetLongPattern
        /\ det.res.side = "SELL" => DetShortShape

\* C28 as stated: every 4-bar window with a bearish first candle, strictly
\* increasing closes and histogram, at most one doji among the last 3 (the
\* others bullish) and last close above EMA gives a long signal stamped with
\* the 4th candle's time; flipped windows give none; side matches bias.
C28_LongSignalForEveryWindow ==
    DetOnWindow =>
        /\ DetLongPattern => DetLongSignal
        /\ DetSignalSound

\* C28 amended: the same, for windows whose long EMA is present on all 4
\* snapshots; a window whose first snapshots precede the EMA gives no signal.
C28_LongSignalWhenEmaOnAll ==
    DetOnWindow =>
        /\ (DetLongPattern /\ DetEmaOnAll) <=> DetLongSignal
        /\ DetSignalSound

\* a long signal from a window with exactly one doji among the last 3
C28_Witness ==
    /\ DetOnWindow /\ DetLongPattern /\ DetEmaOnAll /\ DetLongSignal
    /\ Cardinality({i \in 2..Window : is_doji(det.candles[i], 1)}) = 1

\* C29: the detector returns nothing when the long EMA or the MACD histogram
\* is absent on any of the 4 snapshots, when the last close equals its EMA,
\* or when fewer than 4 bars are buffered: a signal needs the indicators
\* ready on 4 consecutive bars.
C29_NoSignalUnlessIndicatorsReady ==
    (/\ det.done
     /\ \/ Len(det.candles) < Window
        \/ \E i \in 1..Len(det.snaps) :
               ~det.snaps[i].ema200.has \/ ~det.snaps[i].histogram.has
        \/ det.candles[Len(det.candles)].close = det.snaps[Len(det.snaps)].ema200.v)
    => ~det.res.signal

\* a window that forms the long pattern bar for bar, turned down because the
\* last close sits exactly on its EMA
C29_Witness ==
    /\ DetOnWindow /\ DetEmaOnAll /\ ~det.res.signal
    /\ det.candles[1].close < det.candles[1].open
    /\ \A i \in 1..(Window - 1) :
          /\ det.candles[i].close < det.candles[i + 1].close
          /\ det.snaps[i].histogram.has /\ det.snaps[i + 1].histogram.has
          /\ det.snaps[i].histogram.v < det.snaps[i + 1].histogram.v
    /\ \A i \in 2..Window : det.candles[i].close > det.candles[i].open
    /\ det.candles[Window].close = det.snaps[Window].ema200.v

\* ------------------------------------------------------------ session clock
\* a query on a weekday (Monday to Friday) under the overnight window
ClockOvernightWeekday ==
    /\ clk.done
    /\ clk.window = [start_hour |-> session_start_hour, end_hour |-> session_end_hour]
    /\ clk.dt.day % 7 \in 0..4

\* the weekday before the day of the query: Friday for a Monday
ClockPreviousWeekday ==
    IF clk.dt.day % 7 = 0 THEN clk.dt.day - 3 ELSE clk.dt.day - 1

\* C30: under the overnight window 07:00-03:00 every weekday time at 02:00
\* is in session and belongs to the session started on the previous weekday
\* at 07:00; every weekday time at 04:00 is outside any session and the next
\* session starts the same day at 07:00.
C30_OvernightWindow ==
    ClockOvernightWeekday =>
        /\ clk.dt.hour = 2 =>
              /\ clk.in_session
              /\ clk.session_start = SomeDatetime(at_hour(ClockPreviousWeekday, 7))
        /\ clk.dt.hour = 4 =>
              /\ ~clk.in_session
              /\ ~clk.session_start.has
              /\ clk.next_start = at_hour(clk.dt.day, 7)

\* the same with Monday left out of the 02:00 case
ClockTuesdayToFriday ==
    ClockOvernightWeekday =>
        /\ (clk.dt.hour = 2 /\ clk.dt.day % 7 # 0) =>
              /\ clk.in_session
              /\ clk.session_start = SomeDatetime(at_hour(clk.dt.day - 1, 7))
        /\ clk.dt.hour = 4 =>
              /\ ~clk.in_session
              /\ ~clk.session_start.has
              /\ clk.next_start = at_hour(clk.dt.day, 7)

\* Monday 02:00 under the overnight window: not in session
ClockMondayNight ==
    /\ ClockOvernightWeekday /\ clk.dt.day % 7 = 0 /\ clk.dt.hour = 2
    /\ ~clk.in_session /\ ~clk.session_start.has
    /\ clk.next_start = at_hour(clk.dt.day, 7)

\* ------------------------------------------------- one process_once() call
\* C38: one process_once() call invokes send_market_order at most once,
\* however many bars it backfills and however many hydration retries it makes.
C38_OneOrderPerCycle == cyc.orders <= 1

\* an order sent in a call that made a hydration retry and fed several bars
C38_Witness ==
    /\ cyc.orders = 1
    /\ cyc.fetches >= 2
    /\ Len(cyc.fed) >= 2

\* C39: when an order plan is built, the window handed to the planner
\* (_candles_4) is the window the detector has just evaluated (the signal
\* buffer): the 4 most recently fed bars, ascending, ending with the signal's
\* candle; also after cycles aborted by an exception while feeding a bar.
C39_PlannerWindowIsDetectorWindow ==
    [][(pc = "feed" /\ cyc'.orders = cyc.orders + 1) =>
          /\ candles_4' = sigbuf'
          /\ Len(candles_4') = Window
          /\ candles_4'[Window] = Head(loc.batch)
          /\ \A i \in 1..(Window - 1) : candles_4'[i] < candles_4'[i + 1]]_vars

\* the current process_once() call found the latest epoch at or below the
\* cursor on its first fetch
HydrationCycle ==
    /\ cyc.ran
    /\ cyc.cursor0 # NoEpoch /\ cyc.latest0 # NoEpoch
    /\ cyc.latest0 <= cyc.cursor0

\* what the hydration wait does while and after it runs
HydrationBounded ==
    HydrationCycle =>
        /\ cyc.fetches <= 1 + HYDRATE_MAX_RETRIES
        /\ pc = "hydrate" =>
              /\ loc.retry < HYDRATE_MAX_RETRIES
              /\ cyc.fetches = 1 + loc.retry
              /\ cyc.stale /\ cyc.fed = <<>>
        /\ cyc.fed # <<>> => ~cyc.stale /\ pc # "hydrate"
        /\ \A i \in 1..Len(cyc.fed) :
              /\ cyc.fed[i][1] > cyc.cursor0 /\ cyc.fed[i][1] <= gwLatest
              /\ i > 1 => cyc.fed[i - 1][1] < cyc.fed[i][1]

\* C33: in a cycle whose first fetch shows latest epoch <= cursor the
\* pipeline makes at most hydrate_max_retries further fetches, stops at the
\* first one that shows a newer epoch (feeding bars of (cursor, new_epoch] in
\* ascending order) or nothing, and the process_once() call always ends.
C33_HydrationWaitBounded ==
    /\ []HydrationBounded
    /\ (pc # "idle") ~> (pc = "idle")

\* the last allowed retry found a newer bar and it was fed
C33_Witness ==
    /\ HydrationCycle /\ pc = "idle"
    /\ cyc.fetches = 1 + HYDRATE_MAX_RETRIES
    /\ cyc.fed # <<>>

\* ----------------------------------------------------- break-even arming
\* C35: on every closed bar the guard goes from unarmed to armed exactly when
\* a break-even modification was sent on that bar and the gateway reported
\* success; the armed time is that bar's time.  After a failed or skipped
\* attempt, or with break-even disabled, the guard stays unarmed, so the next
\* bar goes to the break-even handler again and never to trailing.
C35_ArmedIffModificationSucceeded ==
    [][candle_no' # candle_no =>
          /\ (guard.be_armed_at_utc = NoTime /\ guard'.be_armed_at_utc # NoTime)
                <=> (sl_log'.kind = "be" /\ sl_log'.ok)
          /\ (sl_log'.kind = "be" /\ sl_log'.ok) => guard'.be_armed_at_utc = candle_no'
          /\ sl_log'.kind = "be" => guard.be_armed_at_utc = NoTime
          /\ guard.be_armed_at_utc = NoTime => sl_log'.kind # "trail"
          /\ ~settings.enable_breakeven_sl => guard'.be_armed_at_utc = NoTime]_vars

\* a break-even modification was refused by the gateway: still tracked, unarmed
C35_Witness ==
    /\ sl_log.kind = "be" /\ ~sl_log.ok
    /\ guard.open_position_ticket # NoTicket
    /\ guard.be_armed_at_utc = NoTime

\* ------------------------------------------------ sides of a submitted order
\* C37: every order handed to send_market_order has its stop on the loss side
\* and its take-profit on the profit side of the live entry price, whatever
\* quote arrives between planning and execution.
C37_StopAndTargetOnTheirSides ==
    (ex.done /\ ex.res.sent) =>
        IF ex.plan.side = "BUY"
        THEN ex.res.sl < ex.res.entry /\ ex.res.entry < ex.res.tp
        ELSE ex.res.tp < ex.res.entry /\ ex.res.entry < ex.res.sl

\* ------------------------------------------------ leaving the out-of-session
\* local datetime a is strictly before local datetime b
ClockBefore(a, b) ==
    \/ a.day < b.day
    \/ a.day = b.day /\ 60 * a.hour + a.minute < 60 * b.hour + b.minute

\* C40: for every instant dt that is not in session, next_session_start(dt)
\* is strictly after dt, falls on a weekday at start_hour, is itself in
\* session, and no session start lies strictly between dt and it.
C40_NextSessionStartIsProgress ==
    (clk.done /\ ~clk.in_session) =>
        /\ ClockBefore(clk.dt, clk.next_start)
        /\ clk.next_start.day % 7 \in 0..4
        /\ clk.next_start.hour = clk.window.start_hour /\ clk.next_start.minute = 0
        /\ in_session(clk.next_start, clk.window)
        /\ \A d \in clk.dt.day..clk.next_start.day :
              (d % 7 \in 0..4 /\ ClockBefore(clk.dt, at_hour(d, clk.window.start_hour)))
                 => ~ClockBefore(at_hour(d, clk.window.start_hour), clk.next_start)

\* Saturday after the overnight session has ended: the next start is Monday's
C40_Witness ==
    /\ clk.done /\ ~clk.in_session
    /\ clk.window.end_hour < clk.window.start_hour
    /\ clk.dt.day % 7 = 5 /\ clk.dt.hour = 4
    /\ clk.next_start = at_hour(clk.dt.day + 2, clk.window.start_hour)

\* --------------------------------------------- warm-up and the first cycle
\* C34: over the process lifetime the indicators consume each closed candle
\* once: a bar consumed by warmup_with_candles at bootstrap is not consumed
\* again through on_closed_candle by the pipeline.
C34_WarmedBarNotConsumedAgain ==
    \A e \in Epochs : warm[e] > 0 => fed[e] = 0


\* C36: next_aligned_close(now, tf) is the earliest boundary of the timeframe
\* (a multiple of tf seconds since local midnight) strictly after now: while
\* the scheduler sleeps for a close, 0 < close - now <= tf, the close is a
\* boundary, a boundary instant maps to the following boundary, and the
\* close is strictly later than the one the loop slept for before.
C36_NextAlignedCloseIsNextBoundary ==
    sch.pc = "sleep_close" =>
        /\ 1 <= sch.close.s - sch.now.s
        /\ sch.close.s - sch.now.s <= sch.tf_sec
        /\ sch.close.us = 0
        /\ (sch.close.s % 86400) % sch.tf_sec = 0
        /\ (((sch.now.s % 86400) % sch.tf_sec = 0 /\ sch.now.us = 0)
               => sch.close.s = sch.now.s + sch.tf_sec)
        /\ (sch.calls > 0 => sch.prev_close.s < sch.close.s)

C36_Witness ==
    /\ sch.pc = "sleep_close"
    /\ sch.calls > 0
    /\ (sch.now.s % 86400) % sch.tf_sec = 0
    /\ sch.now.us = 0

\* C31: an exception raised anywhere in a processing cycle never ends the
\* scheduler loop: whatever on_candle_close() does, run_forever is back at
\* the top of its loop, with its window and timeframe as they were, and its
\* next sleep is for a later close.
C31_ExceptionNeverEndsTheLoop ==
    [][/\ (sch.pc = "call" =>
              /\ sch'.pc = "check"
              /\ sch'.window = sch.window
              /\ sch'.tf_sec = sch.tf_sec)
       /\ (sch'.pc = "sleep_close" /\ sch.calls > 0 => sch'.close.s > sch.close.s)]_vars

C31_Witness ==
    /\ sch.pc = "sleep_close"
    /\ sch.outcome = "logged_by_scheduler"

\* C32: the callback is invoked only at instants inside the session window,
\* and out of session the loop sleeps until next_session_start(now) without
\* invoking it.
C32_CallbackOnlyInSession ==
    /\ sch.pc = "call" => in_session(local_datetime(sch.now), sch.window)
    /\ sch.pc = "sleep_session" =>
          /\ ~in_session(local_datetime(sch.now), sch.window)
          /\ local_datetime(sch.target)
                = next_session_start(local_datetime(sch.now), sch.window)
====
